---- MODULE Spec2Model ----
(***************************************************************************)
(* War Thunder RPC monitor: the telemetry-to-presence engine of            *)
(* src/warthunder_rpc_gui.py (RPCMonitor, WarThunderRPCApp) and of its     *)
(* command-line twin src/wtrpc.py (monitor_war_thunder).                   *)
(*                                                                         *)
(* Python values are represented as follows.                               *)
(*   str            a TLA+ string, processed character by character        *)
(*   None (a str?)  the string None, which no input contains               *)
(*   dict           a function from its keys to its values                 *)
(*   None (a dict?) the function with no key: the code reads a telemetry   *)
(*                  dict only behind a truthiness test, and None and {}    *)
(*                  are both falsy                                         *)
(***************************************************************************)
EXTENDS Integers, Sequences, FiniteSets, TLC

VARIABLES
    VEHICLE_NAME_CACHE,   \* global: canonical id -> <<name, br>>
    LAST_VEHICLE_ID,      \* global: canonical id of the previous tick, or None
    GLOBAL_MAP_HASHES,    \* global: fingerprint -> URL / asset key / ""
    GLOBAL_APP_ID,        \* global: the application id
    VEHICLE_DISPLAY_MAP,  \* global: canonical id -> manual display name
    RPC,                  \* global: the sink handle, [run, open] or NoRPC
    config_file,          \* persistent config.json as last written
    monitor,              \* the RPCMonitor instance of the current run
    rpc_thread,           \* WarThunderRPCApp.rpc_thread: "none", "alive", "dead"
    stop_event,           \* WarThunderRPCApp.stop_event
    buttons,              \* [start, stop]: TRUE when the button is enabled
    pc,                   \* where the poller thread is
    now,                  \* time.time(), in poll intervals
    run,                  \* number of Start requests that built a monitor
    tick,                 \* what the most recent tick observed and did
    sink,                 \* the newest payload the sink received, and its run
    resolved,             \* the ids whose external lookup has succeeded
    app                   \* WarThunderRPCApp: its window, what start_rpc last did

vars == <<VEHICLE_NAME_CACHE, LAST_VEHICLE_ID, GLOBAL_MAP_HASHES, GLOBAL_APP_ID,
          VEHICLE_DISPLAY_MAP, RPC, config_file, monitor, rpc_thread, stop_event,
          buttons, pc, now,
          run, tick, sink, resolved, app>>

-----------------------------------------------------------------------------
(* Bounds of the model *)

\* ticks executed by the process, over all runs
MaxTicks == 3
\* Start requests that build a monitor
MaxRuns == 2
\* ticks executed by the process where single ticks are examined
MaxShortTicks == 2

-----------------------------------------------------------------------------
(* Python values *)

\* latest reading of the clock, in poll intervals, when a pass is evaluated
\* on its own
MaxClock == 2

None == "<None>"
NoDict == [k \in {} |-> None]

\* bool(s) of an optional string
Truthy(s) == s # None /\ s # ""
\* bool(d) of an optional dict
TruthyDict(d) == DOMAIN d # {}
\* d.get(k, default)
Get(d, k, default) == IF k \in DOMAIN d THEN d[k] ELSE default

-----------------------------------------------------------------------------
(* Python string methods, on ASCII strings *)

\* the cased ASCII characters, each with its counterpart
UpperToLower ==
    [c \in {"A", "B", "C", "D", "E", "F", "G", "H", "I", "J", "K", "L", "M",
            "N", "O", "P", "Q", "R", "S", "T", "U", "V", "W", "X", "Y", "Z"} |->
        CASE c = "A" -> "a" [] c = "B" -> "b" [] c = "C" -> "c" [] c = "D" -> "d"
          [] c = "E" -> "e" [] c = "F" -> "f" [] c = "G" -> "g" [] c = "H" -> "h"
          [] c = "I" -> "i" [] c = "J" -> "j" [] c = "K" -> "k" [] c = "L" -> "l"
          [] c = "M" -> "m" [] c = "N" -> "n" [] c = "O" -> "o" [] c = "P" -> "p"
          [] c = "Q" -> "q" [] c = "R" -> "r" [] c = "S" -> "s" [] c = "T" -> "t"
          [] c = "U" -> "u" [] c = "V" -> "v" [] c = "W" -> "w" [] c = "X" -> "x"
          [] c = "Y" -> "y" [] c = "Z" -> "z"]
LowerToUpper ==
    [c \in {UpperToLower[u] : u \in DOMAIN UpperToLower} |->
        CHOOSE u \in DOMAIN UpperToLower : UpperToLower[u] = c]

CharAt(s, i) == SubSeq(s, i, i)
IsLower(c) == c \in DOMAIN LowerToUpper
IsUpper(c) == c \in DOMAIN UpperToLower
IsCased(c) == IsLower(c) \/ IsUpper(c)
ToLowerChar(c) == IF IsUpper(c) THEN UpperToLower[c] ELSE c
ToUpperChar(c) == IF IsLower(c) THEN LowerToUpper[c] ELSE c

\* s.lower()
RECURSIVE Lower(_)
Lower(s) == IF s = "" THEN "" ELSE ToLowerChar(Head(s)) \o Lower(Tail(s))

\* s.strip()
IsSpace(c) == c = " "
RECURSIVE LStrip(_)
LStrip(s) == IF s # "" /\ IsSpace(Head(s)) THEN LStrip(Tail(s)) ELSE s
RECURSIVE RStrip(_)
RStrip(s) ==
    IF s # "" /\ IsSpace(CharAt(s, Len(s)))
    THEN RStrip(SubSeq(s, 1, Len(s) - 1))
    ELSE s
Strip(s) == RStrip(LStrip(s))

\* s.startswith(p)
StartsWith(s, p) == Len(s) >= Len(p) /\ SubSeq(s, 1, Len(p)) = p

\* sub in s
Contains(sub, s) ==
    \E i \in 1..(Len(s) - Len(sub) + 1) : SubSeq(s, i, i + Len(sub) - 1) = sub

\* s.replace(c, r) for a one-character c
RECURSIVE Replace(_, _, _)
Replace(s, c, r) ==
    IF s = "" THEN ""
    ELSE (IF Head(s) = c THEN r ELSE Head(s)) \o Replace(Tail(s), c, r)

\* s.title(): a cased character is upper-cased after an uncased one (or at the
\* start) and lower-cased after a cased one
RECURSIVE TitleFrom(_, _)
TitleFrom(s, prevCased) ==
    IF s = "" THEN ""
    ELSE (IF prevCased THEN ToLowerChar(Head(s)) ELSE ToUpperChar(Head(s)))
         \o TitleFrom(Tail(s), IsCased(Head(s)))
Title(s) == TitleFrom(s, FALSE)

\* index of the last occurrence of the character c in s at or before from, 0
\* when there is none
RECURSIVE LastIndexUpTo(_, _, _)
LastIndexUpTo(s, c, from) ==
    IF from = 0 THEN 0
    ELSE IF CharAt(s, from) = c THEN from
    ELSE LastIndexUpTo(s, c, from - 1)
LastIndexOf(s, c) == LastIndexUpTo(s, c, Len(s))
\* index of the first occurrence of the character c in s at or after from,
\* Len(s) + 1 when there is none
RECURSIVE FirstIndexFrom(_, _, _)
FirstIndexFrom(s, c, from) ==
    IF from > Len(s) THEN Len(s) + 1
    ELSE IF CharAt(s, from) = c THEN from
    ELSE FirstIndexFrom(s, c, from + 1)

\* mutant: the path of the id is kept
LastSegment_Whole(s) == s

\* s.split('/')[-1]
LastSegment(s) == SubSeq(s, LastIndexOf(s, "/") + 1, Len(s))

Min(a, b) == IF a <= b THEN a ELSE b

\* urlparse(u).path of an http(s) URL: what follows the network location, up
\* to the parameters, the query or the fragment
UrlPath(u) ==
    LET afterScheme == FirstIndexFrom(u, ":", 1) + 3
        pathStart   == FirstIndexFrom(u, "/", afterScheme)
        pathEnd     == Min(FirstIndexFrom(u, ";", pathStart),
                           Min(FirstIndexFrom(u, "?", pathStart),
                               FirstIndexFrom(u, "#", pathStart))) - 1
    IN  SubSeq(u, pathStart, pathEnd)

\* os.path.basename(p)
Basename(p) == SubSeq(p, LastIndexOf(p, "/") + 1, Len(p))

\* os.path.splitext(name)[0] of a file name without directory: the extension
\* starts at the last dot, unless only dots precede it
SplitextRoot(name) ==
    LET dot == LastIndexOf(name, ".")
    IN  IF dot > 1 /\ \E i \in 1..(dot - 1) : CharAt(name, i) # "."
        THEN SubSeq(name, 1, dot - 1)
        ELSE name

-----------------------------------------------------------------------------
(* Program constants *)

VEHICLE_IMAGE_BASE_URL == "https://static.encyclopedia.warthunder.com/images/"
GITHUB_RAW_BASE_URL ==
    "https://raw.githubusercontent.com/ajaniceman/WarThunderRPC/main/mapPictures/"
MAP_IMAGE_EXTENSION == ".jpg"
BASE_WIKI_URL == "https://wiki.warthunder.com/unit/"
\* the fingerprint the map-display step compares the observed one with
HangarHash == "cfb99c04947c94c19d4c523c1e0fb3a2d71d403263fefcad5f4c4fc8485d07d0"
\* the manual override table: empty in both programs
\* VEHICLE_DISPLAY_MAP as the source has it: no entry
NoOverrides == [k \in {} |-> None]

-----------------------------------------------------------------------------
(* Helper functions *)

lookup_map_name(sha256_hash, table) ==
    IF Truthy(sha256_hash)
    THEN IF sha256_hash \in DOMAIN table
         THEN (IF table[sha256_hash] # "" THEN table[sha256_hash]
               ELSE "Unknown Map (Needs Update)")
         ELSE "Unknown Map (Hash: " \o SubSeq(sha256_hash, 1, 8) \o "...)"
    ELSE "Not in Mission"

\* mutant: only http:// makes a URL
is_url_HttpOnly(s) == StartsWith(s, "http://")

is_url(s) == StartsWith(s, "http://") \/ StartsWith(s, "https://")

\* mutant: a mission endpoint that gave no answer counts as a running mission
IsInMission_AbsentIsRunning(mission_data) ==
    ~TruthyDict(mission_data) \/ Get(mission_data, "status", None) = "running"

\* the truth value of is_in_mission, computed alike by get_status_message and
\* by the polling loop
IsInMission(mission_data) ==
    LET is_status_running ==
            TruthyDict(mission_data) /\ Get(mission_data, "status", None) = "running"
        is_mission_enabled_or_valid ==
            TruthyDict(mission_data)
            /\ (\/ Get(mission_data, "is_enabled", FALSE)
                \/ (/\ Get(mission_data, "valid", FALSE)
                    /\ Get(mission_data, "type", "mission") # "mission"))
    IN  is_status_running \/ is_mission_enabled_or_valid

\* mutant: the mission type is always inferred from the vehicle id
MissionType_VehicleFirst(mission_data, unfiltered_raw_id) ==
    IF Truthy(unfiltered_raw_id) /\ Contains("tankmodels/", unfiltered_raw_id)
        THEN "ground_battle"
    ELSE IF Truthy(unfiltered_raw_id)
            /\ (\/ Contains("shipmodels/", unfiltered_raw_id)
                \/ Contains("boat/", unfiltered_raw_id))
        THEN "naval_battle"
    ELSE IF unfiltered_raw_id # "unknown_vehicle" THEN "air_battle"
    ELSE "Custom Battle"

\* get_status_message's mission type: the reported one, or the one inferred
\* from the vehicle id when it is missing, null, empty or "mission"
MissionType(mission_data, unfiltered_raw_id) ==
    LET mission_type_raw == Get(mission_data, "type", None)
    IN  IF ~Truthy(mission_type_raw) \/ mission_type_raw = "mission"
        THEN IF Truthy(unfiltered_raw_id) /\ Contains("tankmodels/", unfiltered_raw_id)
                 THEN "ground_battle"
             ELSE IF Truthy(unfiltered_raw_id)
                     /\ (\/ Contains("shipmodels/", unfiltered_raw_id)
                         \/ Contains("boat/", unfiltered_raw_id))
                 THEN "naval_battle"
             ELSE IF unfiltered_raw_id # "unknown_vehicle" THEN "air_battle"
             ELSE "Custom Battle"
        ELSE mission_type_raw

\* mutant: every vehicle is piloted
ActionText_Piloting(detected_vehicle, unfiltered_raw_id) ==
    "Piloting the " \o detected_vehicle

\* get_status_message's action_text before the unknown-type fallback
ActionText(detected_vehicle, unfiltered_raw_id) ==
    IF Contains("tankmodels/", unfiltered_raw_id)
        THEN "Driving a " \o detected_vehicle
    ELSE IF \/ Contains("shipmodels/", unfiltered_raw_id)
            \/ Contains("boat/", unfiltered_raw_id)
        THEN "Commanding the " \o detected_vehicle
    ELSE "Piloting the " \o detected_vehicle

\* mutant: the unknown-type fallback keeps the action phrase as the subline
MissionStatus_KeepsAction(mission_data, detected_vehicle, map_name, unfiltered_raw_id) ==
    LET mission_type_raw == MissionType(mission_data, unfiltered_raw_id)
        action_text == ActionText(detected_vehicle, unfiltered_raw_id)
    IN  IF \/ Contains("ground_battle", mission_type_raw)
           \/ Contains("ground_match", mission_type_raw)
            THEN <<"In Ground Battle on " \o map_name, action_text>>
        ELSE IF \/ Contains("air_battle", mission_type_raw)
                \/ Contains("air_match", mission_type_raw)
            THEN <<"In Air Battle on " \o map_name, action_text>>
        ELSE IF Contains("naval_battle", mission_type_raw)
            THEN <<"In Naval Battle on " \o map_name, action_text>>
        ELSE IF Contains("Custom Battle", mission_type_raw)
            THEN <<"In Custom Battle on " \o map_name, action_text>>
        ELSE <<"In Battle: " \o Title(Replace(mission_type_raw, "_", " ")), action_text>>

\* get_status_message's return in the in-mission branch
MissionStatus(mission_data, detected_vehicle, map_name, unfiltered_raw_id) ==
    LET mission_type_raw == MissionType(mission_data, unfiltered_raw_id)
        action_text == ActionText(detected_vehicle, unfiltered_raw_id)
    IN  IF \/ Contains("ground_battle", mission_type_raw)
           \/ Contains("ground_match", mission_type_raw)
            THEN <<"In Ground Battle on " \o map_name, action_text>>
        ELSE IF \/ Contains("air_battle", mission_type_raw)
                \/ Contains("air_match", mission_type_raw)
            THEN <<"In Air Battle on " \o map_name, action_text>>
        ELSE IF Contains("naval_battle", mission_type_raw)
            THEN <<"In Naval Battle on " \o map_name, action_text>>
        ELSE IF Contains("Custom Battle", mission_type_raw)
            THEN <<"In Custom Battle on " \o map_name, action_text>>
        ELSE <<"In Battle: " \o Title(Replace(mission_type_raw, "_", " ")),
               "Map: " \o map_name>>

\* the idle pair or the menu pair
IdleStatus(detected_vehicle) ==
    LET vehicle_display ==
            IF detected_vehicle # "Unknown Vehicle" THEN detected_vehicle ELSE "Vehicle"
    IN  IF detected_vehicle # "Unknown Vehicle"
        THEN <<"Idle in Hangar", "Inspecting " \o vehicle_display>>
        ELSE <<"In Main Menu/Hangar", "Waiting for vehicle selection">>

\* mutant: a record without a type key counts as a type other than "mission"
StatusInMission_NoDefault(mission_data) ==
    /\ TruthyDict(mission_data)
    /\ \/ Get(mission_data, "status", None) = "running"
       \/ Get(mission_data, "is_enabled", FALSE)
       \/ (/\ Get(mission_data, "valid", FALSE)
           /\ Get(mission_data, "type", None) # "mission")

\* is_in_mission as get_status_message uses it
StatusInMission(mission_data) == IsInMission(mission_data)

\* mutant: the Hangar test comes before the test of the state telemetry
get_status_message_HangarFirst(state_data, mission_data, detected_vehicle, map_name, unfiltered_raw_id) ==
    IF map_name = "Hangar" THEN IdleStatus(detected_vehicle)
    ELSE IF ~TruthyDict(state_data) THEN <<"Offline", "Waiting for game...">>
    ELSE IF StatusInMission(mission_data)
        THEN MissionStatus(mission_data, detected_vehicle, map_name, unfiltered_raw_id)
    ELSE IdleStatus(detected_vehicle)

get_status_message(state_data, mission_data, detected_vehicle, map_name, unfiltered_raw_id) ==
    IF ~TruthyDict(state_data) THEN <<"Offline", "Waiting for game...">>
    ELSE IF map_name = "Hangar" THEN IdleStatus(detected_vehicle)
    ELSE IF StatusInMission(mission_data)
        THEN MissionStatus(mission_data, detected_vehicle, map_name, unfiltered_raw_id)
    ELSE IdleStatus(detected_vehicle)

\* mutant: an unusable name of the state source falls back on the indicators
get_raw_vehicle_id_FallsBack(state_data, indicators_data) ==
    LET named == TruthyDict(state_data) /\ "name" \in DOMAIN state_data
        typed == TruthyDict(indicators_data) /\ "type" \in DOMAIN indicators_data
        usable(x) == Truthy(x) /\ x \notin {"unknown_vehicle", "Unknown Vehicle"}
        raw_id ==
            IF named /\ usable(state_data["name"]) THEN state_data["name"]
            ELSE IF typed THEN indicators_data["type"]
            ELSE None
    IN  IF ~usable(raw_id)
        THEN <<"unknown_vehicle", "unknown_vehicle">>
        ELSE LET unfiltered_raw_id == Strip(Lower(raw_id))
             IN  <<IF Contains("/", unfiltered_raw_id)
                   THEN LastSegment(unfiltered_raw_id)
                   ELSE unfiltered_raw_id, unfiltered_raw_id>>

get_raw_vehicle_id(state_data, indicators_data) ==
    LET raw_id ==
            IF TruthyDict(state_data) /\ "name" \in DOMAIN state_data
                THEN state_data["name"]
            ELSE IF TruthyDict(indicators_data) /\ "type" \in DOMAIN indicators_data
                THEN indicators_data["type"]
            ELSE None
    IN  IF ~Truthy(raw_id) \/ raw_id \in {"unknown_vehicle", "Unknown Vehicle"}
        THEN <<"unknown_vehicle", "unknown_vehicle">>
        ELSE LET unfiltered_raw_id == Strip(Lower(raw_id))
                 canonical_id ==
                     IF Contains("/", unfiltered_raw_id)
                     THEN LastSegment(unfiltered_raw_id)
                     ELSE unfiltered_raw_id
             IN  <<canonical_id, unfiltered_raw_id>>

get_wiki_url_from_id(vehicle_id) == BASE_WIKI_URL \o vehicle_id

get_default_display_name(raw_id) ==
    IF raw_id = "unknown_vehicle" THEN "Unknown Vehicle"
    ELSE Strip(Title(Replace(raw_id, "_", " ")))

-----------------------------------------------------------------------------
(* The external metadata resolver *)

\* What the wiki answers for a vehicle page: NoPage when the request fails,
\* else the text of the unit-name div, of the first heading and of the RB
\* rating, each None when the markup lacks it.
NoPage == [k \in {} |-> None]

get_vehicle_name(wiki_url, page) ==
    IF page = NoPage THEN <<None, None>>
    ELSE LET fromDiv == page["unit_name"]
             fromHeading == IF ~Truthy(fromDiv) THEN page["heading"] ELSE fromDiv
             display_name ==
                 IF ~Truthy(fromHeading)
                 THEN Strip(Title(Replace(LastSegment(UrlPath(wiki_url)), "_", " ")))
                 ELSE fromHeading
         IN  <<display_name, page["rb_br"]>>

-----------------------------------------------------------------------------
(* One tick of the polling loop, as a function of what it reads *)

\* the second test of the lookup branch, reached only for an uncached id
ShouldScrape(raw_vehicle_id, last_vehicle_id, cache) ==
    raw_vehicle_id # last_vehicle_id \/ raw_vehicle_id \notin DOMAIN cache

\* mutant: a lookup that found no rating is not cached
CacheInsert_OnlyRated(cache, raw_vehicle_id, detected_vehicle, detected_br) ==
    IF detected_br = "N/A" THEN cache
    ELSE [k \in DOMAIN cache \cup {raw_vehicle_id} |->
             IF k = raw_vehicle_id THEN <<detected_vehicle, detected_br>> ELSE cache[k]]

\* mutant: a successful lookup is not stored
CacheInsert_Dropped(cache, raw_vehicle_id, detected_vehicle, detected_br) == cache

\* mutant: storing a lookup drops what the cache held
CacheInsert_Forgets(cache, raw_vehicle_id, detected_vehicle, detected_br) ==
    [k \in {raw_vehicle_id} |-> <<detected_vehicle, detected_br>>]

\* VEHICLE_NAME_CACHE[raw_vehicle_id] = (detected_vehicle, detected_br)
CacheInsert(cache, raw_vehicle_id, detected_vehicle, detected_br) ==
    [k \in DOMAIN cache \cup {raw_vehicle_id} |->
        IF k = raw_vehicle_id THEN <<detected_vehicle, detected_br>> ELSE cache[k]]

\* mutant: the unknown marker is looked up like any id
IsKnownId_Always(raw_vehicle_id) == TRUE

\* the test that opens the cache and lookup branch
IsKnownId(raw_vehicle_id) == raw_vehicle_id # "unknown_vehicle"

\* mutant: the manual override is not applied
ApplyOverride_Skipped(display_map, raw_vehicle_id, detected_vehicle) == detected_vehicle

\* the manual override of the display name
ApplyOverride(display_map, raw_vehicle_id, detected_vehicle) ==
    IF raw_vehicle_id \in DOMAIN display_map
    THEN display_map[raw_vehicle_id] ELSE detected_vehicle

\* step 2: the vehicle's name and rating, the lookup and the cache
ResolveVehicle(raw_vehicle_id, last_vehicle_id, cache, page) ==
    LET default_name == get_default_display_name(raw_vehicle_id)
        cached == IsKnownId(raw_vehicle_id) /\ raw_vehicle_id \in DOMAIN cache
        scrape == /\ IsKnownId(raw_vehicle_id)
                  /\ ~cached
                  /\ ShouldScrape(raw_vehicle_id, last_vehicle_id, cache)
        scraped_data == get_vehicle_name(get_wiki_url_from_id(raw_vehicle_id), page)
        scrape_ok == scrape /\ Truthy(scraped_data[1])
        name == IF cached THEN cache[raw_vehicle_id][1]
                ELSE IF scrape_ok THEN scraped_data[1]
                ELSE default_name
        br == IF cached THEN cache[raw_vehicle_id][2]
              ELSE IF scrape_ok /\ Truthy(scraped_data[2]) THEN scraped_data[2]
              ELSE "N/A"
    IN  [scrape |-> scrape,
         scrape_ok |-> scrape_ok,
         detected_vehicle |-> ApplyOverride(VEHICLE_DISPLAY_MAP, raw_vehicle_id, name),
         detected_br |-> br,
         cache |-> IF scrape_ok THEN CacheInsert(cache, raw_vehicle_id, name, br)
                   ELSE cache]

auto_generated_url ==
    GITHUB_RAW_BASE_URL \o Replace(Lower("unknown_map"), " ", "_") \o MAP_IMAGE_EXTENSION

\* mutant: every observed fingerprint is registered again
IsNewHash_Always(sha256_hash, table) == Truthy(sha256_hash)

\* the test of the auto-add branch
IsNewHash(sha256_hash, table) == Truthy(sha256_hash) /\ sha256_hash \notin DOMAIN table

\* mutant: a new fingerprint is not stored
RegisterHash_Dropped(table, sha256_hash) == table

\* GLOBAL_MAP_HASHES[sha256_hash] = auto_generated_url
RegisterHash(table, sha256_hash) ==
    [h \in DOMAIN table \cup {sha256_hash} |->
        IF h = sha256_hash THEN auto_generated_url ELSE table[h]]

\* mutant: the table is changed in memory and not saved
SaveRegistration_Skipped(registered, app_id, table, file) == file

\* the persisted configuration after a tick: save_config is called inside the
\* branch that registers a fingerprint, with the table after the insertion
SaveRegistration(registered, app_id, table, file) ==
    IF registered THEN [APP_ID |-> app_id, MAP_HASHES |-> table] ELSE file

\* step 3: the map value of the tick and the mapping table after it
IdentifyMap(sha256_hash, table) ==
    LET register == Truthy(sha256_hash) /\ IsNewHash(sha256_hash, table)
    IN  [registered |-> register,
         current_map_value |->
             IF ~Truthy(sha256_hash) THEN "Not in Mission"
             ELSE IF register THEN auto_generated_url
             ELSE lookup_map_name(sha256_hash, table),
         table |-> IF register THEN RegisterHash(table, sha256_hash) ELSE table]

\* step 5: the display name of the map and the asset key or URL
MapDisplay(current_map_value, sha256_hash) ==
    IF is_url(current_map_value)
    THEN LET filename == SplitextRoot(Basename(UrlPath(current_map_value)))
             shown == Title(Replace(filename, "_", " "))
         IN  [map_name_display |->
                  IF shown = "Unknown Map" THEN "Unknown Map (Upload Pending)" ELSE shown,
              map_asset_key_or_url |-> current_map_value]
    ELSE IF current_map_value \in
              {"Unknown Map (Needs Update)", "Unknown Map (Just Added)", "Not in Mission"}
    THEN [map_name_display |->
              IF /\ current_map_value = "Not in Mission"
                 /\ Truthy(sha256_hash)
                 /\ Contains(HangarHash, sha256_hash)
              THEN "Hangar" ELSE current_map_value,
          map_asset_key_or_url |-> current_map_value]
    ELSE [map_name_display |-> Title(Replace(current_map_value, "_", " ")),
          map_asset_key_or_url |->
              Replace(Replace(Replace(Replace(Lower(current_map_value),
                  " ", "_"), "-", "_"), "(", ""), ")", "")]

\* step 8: the large and the small image
SelectImages(is_in_mission, map_asset_key_or_url, map_name_display, current_image_url, tooltip_text) ==
    LET is_clean_asset_key ==
            /\ ~is_url(map_asset_key_or_url)
            /\ map_asset_key_or_url \notin
                   {"unknown_map_(needs_update)", "unknown_map_(just_added)",
                    "unknown_map", "not_in_mission", "hangar"}
        small_image_key == IF Truthy(current_image_url) THEN current_image_url ELSE None
    IN  [large_image_key |->
             IF is_in_mission /\ (is_url(map_asset_key_or_url) \/ is_clean_asset_key)
             THEN map_asset_key_or_url ELSE "war_thunder_logo",
         large_image_text |->
             IF is_in_mission /\ is_url(map_asset_key_or_url)
                 THEN (IF map_name_display \notin {"Unknown Map (Upload Pending)"}
                       THEN map_name_display ELSE "Uploading Map Image")
             ELSE IF is_in_mission /\ is_clean_asset_key THEN map_name_display
             ELSE "War Thunder",
         small_image_key |-> small_image_key,
         small_image_text |-> IF Truthy(small_image_key) THEN tooltip_text ELSE None]

\* mutant: every tick resets the session start
SessionStart_EveryTick(map_name_display, clock, start_time) == clock

\* mutant: the session start is reset on every map but the Hangar
SessionStart_OutsideHangar(map_name_display, clock, start_time) ==
    IF map_name_display # "Hangar" THEN clock ELSE start_time

\* self.start_time after the Hangar test
SessionStart(map_name_display, clock, start_time) ==
    IF map_name_display = "Hangar" THEN clock ELSE start_time

\* mutant: the payload never carries a small image
RpcPayload_NoSmall(details, state, start_time, img) ==
    [details |-> details, state |-> state, start |-> start_time,
     large_image |-> img.large_image_key, large_text |-> img.large_image_text]

\* step 9: the payload handed to the sink
RpcPayload(details, state, start_time, img) ==
    IF Truthy(img.small_image_key)
    THEN [details |-> details, state |-> state, start |-> start_time,
          large_image |-> img.large_image_key, large_text |-> img.large_image_text,
          small_image |-> img.small_image_key, small_text |-> img.small_image_text]
    ELSE [details |-> details, state |-> state, start |-> start_time,
          large_image |-> img.large_image_key, large_text |-> img.large_image_text]

\* step 10: the test that decides whether the sink is called
UpdateNeeded(details, state, detected_vehicle, large_image_key, small_image_key, detected_br, map_name_display, mon) ==
    LET current_rpc_data_tuple ==
            <<details, state, detected_vehicle, large_image_key, small_image_key,
              detected_br, map_name_display>>
        last_rpc_data_tuple ==
            <<mon.last_details, mon.last_state, mon.last_vehicle_display,
              mon.last_image_url, small_image_key, mon.last_br, mon.last_map_name>>
    IN  current_rpc_data_tuple # last_rpc_data_tuple

\* The record a pass of the loop body leaves: every local of the pass that a
\* later pass, the sink or a property reads.  The passes below hand each local
\* on as an argument, in the order the loop body assigns them.
TickLocals(ids, veh, map, disp, is_in_mission, status, img, start_time, mon) ==
    [raw_vehicle_id |-> ids[1],
     unfiltered_raw_id |-> ids[2],
     scrape |-> veh.scrape,
     scrape_ok |-> veh.scrape_ok,
     detected_vehicle |-> veh.detected_vehicle,
     detected_br |-> veh.detected_br,
     cache |-> veh.cache,
     registered |-> map.registered,
     table |-> map.table,
     current_map_value |-> map.current_map_value,
     map_name_display |-> disp.map_name_display,
     map_asset_key_or_url |-> disp.map_asset_key_or_url,
     is_in_mission |-> is_in_mission,
     details |-> status[1],
     state |-> status[2],
     large_image_key |-> img.large_image_key,
     large_image_text |-> img.large_image_text,
     small_image_key |-> img.small_image_key,
     small_image_text |-> img.small_image_text,
     start_time |-> start_time,
     rpc_payload |-> RpcPayload(status[1], status[2], start_time, img),
     update |-> UpdateNeeded(status[1], status[2], veh.detected_vehicle,
                             img.large_image_key, img.small_image_key,
                             veh.detected_br, disp.map_name_display, mon)]

\* the status text, the tooltip, the images and the session clock of a pass
\* whose vehicle and map are resolved
TickPresence(t, mon, clock, ids, veh, map, disp) ==
    LET current_image_url ==
            IF ids[1] # "unknown_vehicle"
            THEN VEHICLE_IMAGE_BASE_URL \o ids[1] \o ".png" ELSE ""
        br_tooltip == IF veh.detected_br # "N/A" THEN " BR: " \o veh.detected_br ELSE ""
        tooltip_text == veh.detected_vehicle \o br_tooltip
    IN  TickLocals(ids, veh, map, disp, IsInMission(t.mission_data),
                   get_status_message(t.state_data, t.mission_data, veh.detected_vehicle,
                                      disp.map_name_display, ids[2]),
                   SelectImages(IsInMission(t.mission_data), disp.map_asset_key_or_url,
                                disp.map_name_display, current_image_url, tooltip_text),
                   SessionStart(disp.map_name_display, clock, mon.start_time), mon)

\* the map's display name and asset of a pass whose map value is looked up
TickMapName(t, mon, clock, ids, veh, map) ==
    TickPresence(t, mon, clock, ids, veh, map,
                 MapDisplay(map.current_map_value, t.sha256_hash))

\* the vehicle and the map of a pass whose vehicle id is read
TickResolve(t, page, mon, cache, last_vehicle_id, table, clock, ids) ==
    TickMapName(t, mon, clock, ids,
                ResolveVehicle(ids[1], last_vehicle_id, cache, page),
                IdentifyMap(t.sha256_hash, table))

\* Everything one pass of the loop body computes from the telemetry snapshot t
\* = [state_data, indicators_data, mission_data, sha256_hash], the wiki's
\* answer, the monitor's fields, the three global tables and the clock.
TickStep(t, page, mon, cache, last_vehicle_id, table, clock) ==
    TickResolve(t, page, mon, cache, last_vehicle_id, table, clock,
                get_raw_vehicle_id(t.state_data, t.indicators_data))

-----------------------------------------------------------------------------
(* Configuration *)

\* mutant: on a fingerprint that both tables hold, the manifest's value is kept
load_config_RemoteWins(config_local, config_external) ==
    LET local_hashes == Get(config_local, "MAP_HASHES", NoDict)
        base == IF TruthyDict(config_external) /\ "MAP_HASHES" \in DOMAIN config_external
                THEN config_external["MAP_HASHES"]
                ELSE local_hashes
        merged == [h \in DOMAIN base \cup DOMAIN local_hashes |->
                      IF h \in DOMAIN base THEN base[h] ELSE local_hashes[h]]
    IN  [APP_ID |-> Get(config_local, "APP_ID", None), MAP_HASHES |-> merged]

\* load_config's mapping table and application id, from the local
\* configuration (after the embedded default has filled an empty one) and the
\* external manifest (NoDict when the fetch fails)
load_config(config_local, config_external) ==
    LET local_hashes == Get(config_local, "MAP_HASHES", NoDict)
        base == IF TruthyDict(config_external) /\ "MAP_HASHES" \in DOMAIN config_external
                THEN config_external["MAP_HASHES"]
                ELSE local_hashes
        merged == IF TruthyDict(local_hashes)
                  THEN [h \in DOMAIN base \cup DOMAIN local_hashes |->
                           IF h \in DOMAIN local_hashes THEN local_hashes[h] ELSE base[h]]
                  ELSE base
    IN  [APP_ID |-> Get(config_local, "APP_ID", None), MAP_HASHES |-> merged]

-----------------------------------------------------------------------------
(* The environment of the model *)

\* fingerprints of map images other than the hangar's
HashTown == "3a7bd3e2360a3d29eea436fcfb7e44c735d117c42d1c1835420b6b9942dd4f1b"
HashEmpty == "9f86d081884c7d659a2feaa0c55ad015a3bf4f1b2b0b822cd15d6c15b0f00a08"
HashNew == "e3b0c44298fc1c149afbf4c8996fb92427ae41e4649b934ca495991b7852b855"
HashPort == "2c26b46b68ffc68ff99b453c1d30413413422d706483bfa0f98a5e886266e7ae"

LocalConfigs ==
    {[APP_ID |-> "1234567890",
      MAP_HASHES |-> (HashTown :> "abandoned_town" @@ HashEmpty :> "")]}

Manifests ==
    {NoDict,
     [MAP_HASHES |->
         (HangarHash :> "Hangar"
          @@ HashTown :> (GITHUB_RAW_BASE_URL \o "port_novorossiysk.jpg")
          @@ HashPort :> (GITHUB_RAW_BASE_URL \o "port_novorossiysk.jpg"))]}

\* what the wiki may answer for a canonical id, on any one request
WikiPages(raw_vehicle_id) ==
    IF raw_vehicle_id = "t_34"
        THEN {NoPage,
              [unit_name |-> "T-34", heading |-> None, rb_br |-> "3.7"],
              [unit_name |-> None, heading |-> None, rb_br |-> None]}
    ELSE IF raw_vehicle_id = "f3d_1"
        THEN {NoPage, [unit_name |-> None, heading |-> "F3D-1", rb_br |-> "7.7"]}
    ELSE {NoPage}

Tank == [valid |-> TRUE, name |-> "tankmodels/T_34"]
Plane == [valid |-> TRUE, name |-> "f3d_1"]
NoName == [valid |-> TRUE]
Marker == [valid |-> TRUE, name |-> "Unknown Vehicle"]
PlaneIndicators == [valid |-> TRUE, type |-> "F3D_1 "]
Running == [status |-> "running"]

\* telemetry snapshots: what the three endpoints and the map image answer on
\* one tick
Snapshots(states, indicators, missions, hashes) ==
    [state_data : states, indicators_data : indicators,
     mission_data : missions, sha256_hash : hashes]

\* the change gate: offline, idle, hangar and battle ticks of one vehicle
GateTelemetry ==
    Snapshots({NoDict, Tank}, {NoDict}, {NoDict, Running}, {None, HangarHash, HashTown})

\* the vehicle cache: two vehicles and no vehicle, from either source
CacheTelemetry ==
    Snapshots({NoDict, NoName, Tank, Plane}, {NoDict, PlaneIndicators}, {NoDict}, {None})

\* the mapping table: every kind of fingerprint, in a running mission
MapTelemetry ==
    Snapshots({Tank}, {NoDict}, {Running},
              {None, HangarHash, HashTown, HashEmpty, HashNew})

\* the small image: no vehicle, the unknown marker and two vehicles, offline,
\* idle and in a mission
SmallTelemetry ==
    Snapshots({NoDict, Marker, Tank}, {NoDict, PlaneIndicators}, {NoDict, Running}, {None})

\* cancellation: two ticks that differ in what they publish
CancelTelemetry == Snapshots({Tank}, {NoDict}, {NoDict}, {None, HashTown})

\* fetch failures: each of the three endpoints and the map image answers or
\* fails on its own
FetchTelemetry ==
    Snapshots({NoDict, Tank}, {NoDict, PlaneIndicators}, {NoDict, Running},
              {None, HashNew})

\* the controls: one vehicle in a mission, with and without a map image whose
\* fingerprint is new
ControlTelemetry == Snapshots({Tank}, {NoDict}, {Running}, {None, HashNew})

\* the manual override: a vehicle with an entry, idle and in a mission, and a
\* vehicle without one
OverrideTelemetry ==
    Snapshots({NoDict, Tank}, {NoDict, PlaneIndicators}, {NoDict, Running}, {None})

\* VEHICLE_DISPLAY_MAP with one entry written into it, the way the commented
\* entry of the source shows
Overrides == [k \in {"t_34"} |-> "T-34 mod. 1942"]

\* the large image: one vehicle in and out of a mission, the map value a URL
\* (HashPort with the manifest, any fingerprint the table lacks), an asset key
\* (HashTown), empty (HashEmpty), the Hangar label or none
ImageTelemetry ==
    Snapshots({Tank}, {NoDict}, {NoDict, Running},
              {None, HangarHash, HashTown, HashEmpty, HashPort})

-----------------------------------------------------------------------------
(* The state machine *)

NoRPC == [run |-> 0, open |-> FALSE]
NoPayload == [k \in {} |-> None]
NoSink == [run |-> 0, payload |-> NoPayload]
NoTick == [n |-> 0, seq |-> 0, run |-> 0, scrape |-> FALSE, scrape_ok |-> FALSE]
\* the application before any request: its window is open, start_rpc has not
\* been called
NoApp == [window |-> "open", last_start |-> "none"]
NoMonitor ==
    [app_id |-> None, start_time |-> 0, last_details |-> "", last_state |-> "",
     last_vehicle_display |-> "", last_image_url |-> "", last_br |-> "",
     last_map_name |-> "", is_connected |-> FALSE]

\* WarThunderRPCApp.__init__: the configuration is loaded and saved, no
\* monitor exists, Start is enabled and Stop is disabled
Boot(display_map) ==
    \E config_local \in LocalConfigs, config_external \in Manifests :
        LET loaded == load_config(config_local, config_external)
        IN  /\ VEHICLE_NAME_CACHE = NoDict
            /\ LAST_VEHICLE_ID = None
            /\ GLOBAL_MAP_HASHES = loaded.MAP_HASHES
            /\ GLOBAL_APP_ID = loaded.APP_ID
            /\ VEHICLE_DISPLAY_MAP = display_map
            /\ RPC = NoRPC
            /\ config_file = loaded
            /\ monitor = NoMonitor
            /\ rpc_thread = "none"
            /\ stop_event = FALSE
            /\ buttons = [start |-> TRUE, stop |-> FALSE]
            /\ pc = "none"
            /\ now = 0
            /\ run = 0
            /\ tick = NoTick
            /\ sink = NoSink
            /\ resolved = {}
            /\ app = NoApp

\* the program as the source has it
Init == Boot(NoOverrides)

\* mutant: the new monitor inherits what the previous one last published
NewMonitor_KeepsLast(app_id, clock, connected) ==
    [monitor EXCEPT !.app_id = app_id, !.start_time = clock,
                    !.is_connected = connected]

\* RPCMonitor.__init__ with the outcome of RPC.connect()
NewMonitor(app_id, clock, connected) ==
    [app_id |-> app_id, start_time |-> clock, last_details |-> "", last_state |-> "",
     last_vehicle_display |-> "", last_image_url |-> "", last_br |-> "",
     last_map_name |-> "", is_connected |-> connected]

\* what the application id entry holds when Save ID is pressed
EntryIds == {"1234567890", " 42 ", ""}

\* save_app_id: the Save ID button, which is enabled at all times. An empty
\* entry is refused; otherwise the id is set and the configuration is saved
\* with the mapping table as it is at that moment.
SaveAppId(entry) ==
    /\ Truthy(Strip(entry))
    /\ GLOBAL_APP_ID' = Strip(entry)
    /\ config_file' = [APP_ID |-> Strip(entry), MAP_HASHES |-> GLOBAL_MAP_HASHES]
    /\ UNCHANGED <<VEHICLE_NAME_CACHE, LAST_VEHICLE_ID, GLOBAL_MAP_HASHES,
                   VEHICLE_DISPLAY_MAP, RPC, monitor, rpc_thread, stop_event,
                   buttons, pc, now, run, tick, sink, resolved, app>>

\* mutant: Start does not ask whether the previous thread is still alive
StartRpc_NoAliveCheck ==
    /\ buttons.start
    /\ run < MaxRuns
    /\ \E connected \in BOOLEAN :
        /\ monitor' = NewMonitor(GLOBAL_APP_ID, now, connected)
        /\ RPC' = [run |-> run + 1, open |-> connected]
        /\ stop_event' = ~connected
    /\ config_file' = [APP_ID |-> GLOBAL_APP_ID, MAP_HASHES |-> GLOBAL_MAP_HASHES]
    /\ rpc_thread' = "alive"
    /\ pc' = "run"
    /\ run' = run + 1
    /\ buttons' = [start |-> FALSE, stop |-> TRUE]
    /\ app' = [app EXCEPT !.last_start = "started"]
    /\ UNCHANGED <<VEHICLE_NAME_CACHE, LAST_VEHICLE_ID, GLOBAL_MAP_HASHES,
                   GLOBAL_APP_ID, VEHICLE_DISPLAY_MAP, now, tick, sink, resolved>>

\* start_rpc, with save_app_id and the monitor's construction: the Start
\* button is pressed with the loaded application id in the entry
StartRpc ==
    /\ buttons.start
    /\ run < MaxRuns
    /\ rpc_thread # "alive"
    /\ \E connected \in BOOLEAN :
        /\ monitor' = NewMonitor(GLOBAL_APP_ID, now, connected)
        /\ RPC' = [run |-> run + 1, open |-> connected]
        /\ stop_event' = ~connected
    /\ config_file' = [APP_ID |-> GLOBAL_APP_ID, MAP_HASHES |-> GLOBAL_MAP_HASHES]
    /\ rpc_thread' = "alive"
    /\ pc' = "run"
    /\ run' = run + 1
    /\ buttons' = [start |-> FALSE, stop |-> TRUE]
    /\ app' = [app EXCEPT !.last_start = "started"]
    /\ UNCHANGED <<VEHICLE_NAME_CACHE, LAST_VEHICLE_ID, GLOBAL_MAP_HASHES,
                   GLOBAL_APP_ID, VEHICLE_DISPLAY_MAP, now, tick, sink, resolved>>

\* stop_rpc: the Stop button is pressed
StopRpc ==
    /\ buttons.stop
    /\ stop_event' = (stop_event \/ rpc_thread = "alive")
    /\ buttons' = [start |-> TRUE, stop |-> FALSE]
    /\ UNCHANGED <<VEHICLE_NAME_CACHE, LAST_VEHICLE_ID, GLOBAL_MAP_HASHES,
                   GLOBAL_APP_ID, VEHICLE_DISPLAY_MAP, RPC, config_file, monitor, rpc_thread, pc, now,
                   run, tick, sink, resolved, app>>

\* mutant: the thread enters the loop whether or not the monitor is connected
RunEntry_NoConnectionCheck ==
    /\ pc = "run"
    /\ pc' = "head" /\ UNCHANGED rpc_thread
    /\ UNCHANGED <<VEHICLE_NAME_CACHE, LAST_VEHICLE_ID, GLOBAL_MAP_HASHES,
                   GLOBAL_APP_ID, VEHICLE_DISPLAY_MAP, RPC, config_file, monitor,
                   stop_event, buttons, now, run, tick, sink, resolved, app>>

\* run(): the thread returns at once when the monitor is not connected
RunEntry ==
    /\ pc = "run"
    /\ IF monitor.is_connected
       THEN pc' = "head" /\ UNCHANGED rpc_thread
       ELSE pc' = "done" /\ rpc_thread' = "dead"
    /\ UNCHANGED <<VEHICLE_NAME_CACHE, LAST_VEHICLE_ID, GLOBAL_MAP_HASHES,
                   GLOBAL_APP_ID, VEHICLE_DISPLAY_MAP, RPC, config_file, monitor, stop_event, buttons,
                   now, run, tick, sink, resolved, app>>

\* mutant: the loop test does not read the stop signal
LoopHead_IgnoresStop(maxTicks) ==
    /\ pc = "head"
    /\ tick.seq < maxTicks
    /\ pc' = "tick"
    /\ UNCHANGED <<VEHICLE_NAME_CACHE, LAST_VEHICLE_ID, GLOBAL_MAP_HASHES,
                   GLOBAL_APP_ID, VEHICLE_DISPLAY_MAP, RPC, config_file, monitor,
                   rpc_thread, stop_event, buttons, now, run, tick, sink, resolved, app>>

\* the loop test: while not self.stop_event.is_set()
LoopHead(maxTicks) ==
    /\ pc = "head"
    /\ IF stop_event THEN pc' = "finally"
       ELSE tick.seq < maxTicks /\ pc' = "tick"
    /\ UNCHANGED <<VEHICLE_NAME_CACHE, LAST_VEHICLE_ID, GLOBAL_MAP_HASHES,
                   GLOBAL_APP_ID, VEHICLE_DISPLAY_MAP, RPC, config_file, monitor, rpc_thread, stop_event,
                   buttons, now, run, tick, sink, resolved, app>>

\* what a tick leaves in the monitor when it has called the sink
Remember(mon, r) ==
    [mon EXCEPT !.start_time = r.start_time,
                !.last_details = r.details,
                !.last_state = r.state,
                !.last_vehicle_display = r.detected_vehicle,
                !.last_image_url = r.large_image_key,
                !.last_br = r.detected_br,
                !.last_map_name = r.map_name_display]

\* the record of a tick: its number in the run and in the process, what it
\* read, what it found in the globals, what TickStep computed, and whether it
\* called the sink
TickRecord(t, r) ==
    [n |-> IF tick.run = run THEN tick.n + 1 ELSE 1,
     seq |-> tick.seq + 1,
     run |-> run,
     state_data |-> t.state_data,
     mission_data |-> t.mission_data,
     sha256_hash |-> t.sha256_hash,
     last_vehicle_id |-> LAST_VEHICLE_ID,
     prev_scrape_failed |-> tick.scrape /\ ~tick.scrape_ok,
     resolved_before |-> resolved,
     known_before |-> t.sha256_hash \in DOMAIN GLOBAL_MAP_HASHES,
     raw_vehicle_id |-> r.raw_vehicle_id,
     unfiltered_raw_id |-> r.unfiltered_raw_id,
     scrape |-> r.scrape,
     scrape_ok |-> r.scrape_ok,
     detected_vehicle |-> r.detected_vehicle,
     detected_br |-> r.detected_br,
     registered |-> r.registered,
     current_map_value |-> r.current_map_value,
     map_name_display |-> r.map_name_display,
     is_in_mission |-> r.is_in_mission,
     rpc_payload |-> r.rpc_payload,
     sent |-> r.update,
     last_sent |-> sink]

\* one pass of the loop body with the sleep that ends it. The wiki is asked
\* only by a tick that looks the vehicle up, and answers with one of pages;
\* sink_ok tells whether RPC.update returns or raises, and is read only by a
\* tick that calls it.
Tick(t, pages) ==
    /\ pc = "tick"
    /\ LET raw_vehicle_id == get_raw_vehicle_id(t.state_data, t.indicators_data)[1]
           asks == ResolveVehicle(raw_vehicle_id, LAST_VEHICLE_ID,
                                  VEHICLE_NAME_CACHE, NoPage).scrape
       IN  \E page \in (IF asks THEN WikiPages(raw_vehicle_id) \cap pages ELSE {NoPage}) :
             \E r \in {TickStep(t, page, monitor, VEHICLE_NAME_CACHE, LAST_VEHICLE_ID,
                                GLOBAL_MAP_HASHES, now)} :
                 \E sink_ok \in (IF r.update THEN BOOLEAN ELSE {TRUE}) :
                   /\ VEHICLE_NAME_CACHE' = r.cache
                   /\ LAST_VEHICLE_ID' = r.raw_vehicle_id
                   /\ GLOBAL_MAP_HASHES' = r.table
                   /\ config_file' = SaveRegistration(r.registered, GLOBAL_APP_ID,
                                                       r.table, config_file)
                   /\ tick' = TickRecord(t, r)
                   /\ resolved' = IF r.scrape_ok
                                  THEN resolved \cup {r.raw_vehicle_id} ELSE resolved
                   /\ IF r.update /\ sink_ok
                      THEN /\ monitor' = Remember(monitor, r)
                           /\ sink' = [run |-> run, payload |-> r.rpc_payload]
                      ELSE /\ monitor' = [monitor EXCEPT !.start_time = r.start_time]
                           /\ UNCHANGED sink
                   /\ IF sink_ok
                      THEN pc' = "head" /\ now' = now + 1
                      ELSE pc' = "finally" /\ UNCHANGED now
    /\ UNCHANGED <<GLOBAL_APP_ID, VEHICLE_DISPLAY_MAP, RPC, rpc_thread, stop_event,
                   buttons, run, app>>

\* mutant: the sink is torn down and the loop is entered again
Finally_Resumes ==
    /\ pc = "finally"
    /\ RPC' = IF RPC # NoRPC THEN NoRPC ELSE RPC
    /\ pc' = "head"
    /\ UNCHANGED <<VEHICLE_NAME_CACHE, LAST_VEHICLE_ID, GLOBAL_MAP_HASHES,
                   GLOBAL_APP_ID, VEHICLE_DISPLAY_MAP, config_file, monitor,
                   rpc_thread, stop_event, buttons, now, run, tick, sink,
                   resolved, app>>

\* mutant: the thread ends without tearing the sink down
Finally_NoTeardown ==
    /\ pc = "finally"
    /\ pc' = "done"
    /\ rpc_thread' = "dead"
    /\ UNCHANGED <<VEHICLE_NAME_CACHE, LAST_VEHICLE_ID, GLOBAL_MAP_HASHES,
                   GLOBAL_APP_ID, VEHICLE_DISPLAY_MAP, RPC, config_file, monitor,
                   stop_event, buttons, now, run, tick, sink, resolved, app>>

\* the finally clause: stop_rpc_connection, and the thread ends
Finally ==
    /\ pc = "finally"
    /\ RPC' = IF RPC # NoRPC THEN NoRPC ELSE RPC
    /\ pc' = "done"
    /\ rpc_thread' = "dead"
    /\ UNCHANGED <<VEHICLE_NAME_CACHE, LAST_VEHICLE_ID, GLOBAL_MAP_HASHES,
                   GLOBAL_APP_ID, VEHICLE_DISPLAY_MAP, config_file, monitor, stop_event, buttons, now,
                   run, tick, sink, resolved, app>>

\* start_rpc when the previous thread is still alive: the request is refused
\* with "RPC is already running." and nothing else changes
StartRpcAlive ==
    /\ buttons.start
    /\ rpc_thread = "alive"
    /\ app' = [app EXCEPT !.last_start = "already running"]
    /\ UNCHANGED <<VEHICLE_NAME_CACHE, LAST_VEHICLE_ID, GLOBAL_MAP_HASHES,
                   GLOBAL_APP_ID, VEHICLE_DISPLAY_MAP, RPC, config_file, monitor,
                   rpc_thread, stop_event, buttons, pc, now, run, tick, sink,
                   resolved>>

\* on_closing up to its sleep: stop_rpc is called, and the control thread
\* sleeps for half a second while the poller thread goes on
OnClosing ==
    /\ app.window = "open"
    /\ stop_event' = (stop_event \/ rpc_thread = "alive")
    /\ buttons' = [start |-> TRUE, stop |-> FALSE]
    /\ app' = [app EXCEPT !.window = "closing"]
    /\ UNCHANGED <<VEHICLE_NAME_CACHE, LAST_VEHICLE_ID, GLOBAL_MAP_HASHES,
                   GLOBAL_APP_ID, VEHICLE_DISPLAY_MAP, RPC, config_file, monitor,
                   rpc_thread, pc, now, run, tick, sink, resolved>>

\* on_closing after its sleep: the window is destroyed, mainloop returns and
\* the process exits, which ends the poller thread (a daemon) wherever it is
Destroy ==
    /\ app.window = "closing"
    /\ app' = [app EXCEPT !.window = "destroyed"]
    /\ UNCHANGED <<VEHICLE_NAME_CACHE, LAST_VEHICLE_ID, GLOBAL_MAP_HASHES,
                   GLOBAL_APP_ID, VEHICLE_DISPLAY_MAP, RPC, config_file, monitor,
                   rpc_thread, stop_event, buttons, pc, now, run, tick, sink,
                   resolved>>

\* a fingerprint that only the later manifest knows
HashDock == "7d865e959b2466918c9863afca942d0fb89d7c9ac0c99bafc3749504ded97730"

\* the manifest as it is at a later start of the program: out of reach, or
\* one in which the maintainers have curated HashNew and HashEmpty, changed
\* HashPort and added HashDock
RestartManifests ==
    {NoDict,
     [MAP_HASHES |->
         (HangarHash :> "Hangar"
          @@ HashPort :> "port"
          @@ HashDock :> "dock"
          @@ HashEmpty :> "empty_field"
          @@ HashNew :> (GITHUB_RAW_BASE_URL \o "new_map.jpg"))]}

\* the process ends, wherever its threads are, and the program is started
\* again: everything in memory is as at the first start, and load_config reads
\* the configuration file as it was last written, merges the manifest of that
\* moment and saves the result
Restart(config_external) ==
    \E loaded \in {load_config(config_file, config_external)} :
        /\ VEHICLE_NAME_CACHE' = NoDict
        /\ LAST_VEHICLE_ID' = None
        /\ GLOBAL_MAP_HASHES' = loaded.MAP_HASHES
        /\ GLOBAL_APP_ID' = loaded.APP_ID
        /\ RPC' = NoRPC
        /\ config_file' = loaded
        /\ monitor' = NoMonitor
        /\ rpc_thread' = "none"
        /\ stop_event' = FALSE
        /\ buttons' = [start |-> TRUE, stop |-> FALSE]
        /\ pc' = "none"
        /\ now' = 0
        /\ run' = 0
        /\ tick' = NoTick
        /\ sink' = NoSink
        /\ resolved' = {}
        /\ app' = NoApp
        /\ UNCHANGED VEHICLE_DISPLAY_MAP

\* the program with its window: the buttons are served while the window is
\* open and the control thread is not in on_closing, the poller thread runs
\* until the process exits
WindowStep(telemetry, pages, maxTicks) ==
    \/ app.window = "open" /\ StartRpc
    \/ app.window = "open" /\ StartRpcAlive
    \/ app.window = "open" /\ StopRpc
    \/ app.window # "destroyed" /\ RunEntry
    \/ app.window # "destroyed" /\ LoopHead(maxTicks)
    \/ app.window # "destroyed" /\ \E t \in telemetry : Tick(t, pages)
    \/ app.window # "destroyed" /\ Finally
    \/ OnClosing
    \/ Destroy

Step(telemetry, pages, maxTicks) ==
    \/ StartRpc
    \/ StopRpc
    \/ RunEntry
    \/ LoopHead(maxTicks)
    \/ \E t \in telemetry : Tick(t, pages)
    \/ Finally

\* every answer of the wiki, and the wiki out of reach
AllPages == UNION {WikiPages(id) : id \in {"t_34", "f3d_1"}}
Unreachable == {NoPage}

Next == Step(GateTelemetry, Unreachable, MaxTicks)
Spec == Init /\ [][Next]_vars

NextCache == Step(CacheTelemetry, AllPages, MaxTicks)
SpecCache == Init /\ [][NextCache]_vars

NextMap == Step(MapTelemetry, Unreachable, MaxTicks)
SpecMap == Init /\ [][NextMap]_vars

NextSmall == Step(SmallTelemetry, AllPages, MaxShortTicks)
SpecSmall == Init /\ [][NextSmall]_vars

\* the program with an entry in its manual override table
InitOverride == Boot(Overrides)
NextOverride == Step(OverrideTelemetry, AllPages, MaxShortTicks)
SpecOverride == InitOverride /\ [][NextOverride]_vars

\* the poller thread keeps running: each of its steps ends (every fetch has a
\* timeout, the sleep is five seconds), so a step that stays enabled is taken.
\* Tick is enabled exactly when pc = "tick" and every Tick step leaves that
\* position, so weak fairness of Tick is []<>(pc # "tick"), and is written so.
NextCancel == Step(CancelTelemetry, Unreachable, MaxTicks)
SpecCancel ==
    /\ Init /\ [][NextCancel]_vars
    /\ WF_vars(RunEntry)
    /\ WF_vars(LoopHead(MaxTicks))
    /\ []<>(pc # "tick")
    /\ WF_vars(Finally)

NextFetch == Step(FetchTelemetry, Unreachable, MaxShortTicks)
SpecFetch == Init /\ [][NextFetch]_vars

\* the program with the Save ID button
NextControl ==
    \/ Step(ControlTelemetry, Unreachable, MaxShortTicks)
    \/ \E entry \in EntryIds : SaveAppId(entry)
SpecControl == Init /\ [][NextControl]_vars

NextWindow == WindowStep(ControlTelemetry, Unreachable, MaxShortTicks)
SpecWindow == Init /\ [][NextWindow]_vars

\* the program over several starts: the first with one of Manifests, each
\* later one with the manifest of its moment
NextRestart ==
    \/ Step(ControlTelemetry, Unreachable, MaxShortTicks)
    \/ \E entry \in EntryIds : SaveAppId(entry)
    \/ \E config_external \in RestartManifests : Restart(config_external)
SpecRestart == Init /\ [][NextRestart]_vars

NextImage == Step(ImageTelemetry, Unreachable, MaxShortTicks)
SpecImage == Init /\ [][NextImage]_vars

-----------------------------------------------------------------------------
(* The classifier on its own: get_status_message applied to one argument list *)

StatusStates == {NoDict, Tank}
StatusMissions ==
    {NoDict, Running, [status |-> "fail"], [is_enabled |-> TRUE],
     [valid |-> TRUE], [valid |-> TRUE, type |-> None],
     [valid |-> TRUE, type |-> "mission"],
     [valid |-> TRUE, type |-> "ground_battle"],
     [valid |-> TRUE, type |-> "pvp_domination"],
     [valid |-> FALSE, type |-> "air_battle"],
     [status |-> "running", type |-> "naval_battle"],
     [status |-> "running", type |-> "air_battle"],
     [status |-> "running", type |-> "mission"],
     [status |-> "running", type |-> ""]}
\* <<detected_vehicle, unfiltered_raw_id>>
StatusVehicles ==
    {<<"Unknown Vehicle", "unknown_vehicle">>, <<"T-34", "tankmodels/t_34">>,
     <<"F3D-1", "f3d_1">>, <<"Bismarck", "shipmodels/ger_battleship_bismarck">>,
     <<"PT-109", "boat/us_pt_109">>}
StatusMaps == {"Hangar", "Abandoned Town", "Not in Mission",
               "Unknown Map (Upload Pending)"}

NoStatus == <<>>

InitStatus ==
    \E state_data \in StatusStates, mission_data \in StatusMissions,
       vehicle \in StatusVehicles, map_name \in StatusMaps :
        LET loaded == load_config(CHOOSE c \in LocalConfigs : TRUE, NoDict)
        IN  /\ VEHICLE_NAME_CACHE = NoDict
            /\ LAST_VEHICLE_ID = None
            /\ GLOBAL_MAP_HASHES = loaded.MAP_HASHES
            /\ GLOBAL_APP_ID = loaded.APP_ID
            /\ VEHICLE_DISPLAY_MAP = NoOverrides
            /\ RPC = NoRPC
            /\ config_file = loaded
            /\ monitor = NoMonitor
            /\ rpc_thread = "none"
            /\ stop_event = FALSE
            /\ buttons = [start |-> TRUE, stop |-> FALSE]
            /\ pc = "call"
            /\ now = 0
            /\ run = 0
            /\ tick = [n |-> 0, seq |-> 0, run |-> 0, scrape |-> FALSE,
                       scrape_ok |-> FALSE, classified |-> FALSE,
                       state_data |-> state_data, mission_data |-> mission_data,
                       detected_vehicle |-> vehicle[1], map_name |-> map_name,
                       unfiltered_raw_id |-> vehicle[2], status |-> NoStatus]
            /\ sink = NoSink
            /\ resolved = {}
            /\ app = NoApp

Classify ==
    /\ pc = "call"
    /\ pc' = "returned"
    /\ tick' = [tick EXCEPT !.classified = TRUE,
                            !.status = get_status_message(tick.state_data,
                                tick.mission_data, tick.detected_vehicle,
                                tick.map_name, tick.unfiltered_raw_id)]
    /\ UNCHANGED <<VEHICLE_NAME_CACHE, LAST_VEHICLE_ID, GLOBAL_MAP_HASHES,
                   GLOBAL_APP_ID, VEHICLE_DISPLAY_MAP, RPC, config_file, monitor, rpc_thread,
                   stop_event, buttons, now, run, sink, resolved, app>>

NextStatus == Classify
SpecStatus == InitStatus /\ [][NextStatus]_vars

-----------------------------------------------------------------------------
(* The change gate *)

\* the payload handed to the sink by the previous sink call of the tick's own
\* run, NoPayload when the run has made none
LastPublished == IF tick.last_sent.run = tick.run THEN tick.last_sent.payload
                 ELSE NoPayload

\* C1: a tick never hands the sink a payload equal in every field (details,
\* state, start, large_image, large_text, small_image, small_text) to the
\* payload of the preceding sink call of its run.
C1_NoDuplicatePayload ==
    (tick.n > 0 /\ tick.sent) => tick.rpc_payload # LastPublished

\* C2: a tick whose payload differs in some field from the last published one
\* calls the sink.
C2_EveryChangePublished ==
    (tick.n > 0 /\ tick.rpc_payload # LastPublished) => tick.sent

\* C3: the first tick of every run calls the sink.
C3_FirstTickPublishes == tick.n = 1 => tick.sent

\* the first tick of a second run is offline, as was the status the first run
\* published last, and calls the sink
C3_Witness ==
    /\ tick.n = 1 /\ tick.run = 2 /\ tick.sent
    /\ tick.last_sent.run = 1
    /\ tick.rpc_payload.details = "Offline"
    /\ \A k \in {"details", "state", "large_image", "large_text"} :
          tick.rpc_payload[k] = tick.last_sent.payload[k]

-----------------------------------------------------------------------------
(* The vehicle cache *)

\* C4: a tick makes no external lookup for an id whose lookup has succeeded
\* on an earlier tick of the process.
C4_CacheMonotonic ==
    (tick.n > 0 /\ tick.scrape) => tick.raw_vehicle_id \notin tick.resolved_before

\* a tick of a second run finds the id resolved by an earlier tick, after a
\* tick that saw another id, and makes no lookup
C4_Witness ==
    /\ tick.n > 0 /\ tick.run = 2
    /\ tick.raw_vehicle_id \in tick.resolved_before
    /\ tick.last_vehicle_id # tick.raw_vehicle_id
    /\ ~tick.scrape

\* C5: after a failed lookup, the next tick makes no lookup when it reports
\* the same id.
C5_NoRetryOfSameId ==
    (tick.n > 0 /\ tick.prev_scrape_failed
        /\ tick.raw_vehicle_id = tick.last_vehicle_id) => ~tick.scrape

-----------------------------------------------------------------------------
(* The mapping table *)

PlaceholderUrl ==
    "https://raw.githubusercontent.com/ajaniceman/WarThunderRPC/main/mapPictures/unknown_map.jpg"

\* C6: after a tick that observed a fingerprint, the fingerprint is a key of
\* the mapping table; when it was not one before the tick, it maps to the
\* placeholder reference, which is the tick's map value.
C6_ObservedHashRegistered ==
    (tick.n > 0 /\ Truthy(tick.sha256_hash)) =>
        /\ tick.sha256_hash \in DOMAIN GLOBAL_MAP_HASHES
        /\ ~tick.known_before =>
              /\ GLOBAL_MAP_HASHES[tick.sha256_hash] = PlaceholderUrl
              /\ tick.current_map_value = PlaceholderUrl
              /\ tick.map_name_display = "Unknown Map (Upload Pending)"

\* a tick observed a fingerprint the table did not hold
C6_Witness ==
    /\ tick.n > 0 /\ Truthy(tick.sha256_hash)
    /\ ~tick.known_before /\ tick.registered

\* C7: a step changes the mapping table only when it is a tick that observed a
\* fingerprint absent from it, and then by adding that key alone; a tick that
\* observed a fingerprint already in the table leaves the table and the saved
\* configuration as they are and returns the stored reference.
C7_RegistrationIdempotent ==
    [][LET h == tick'.sha256_hash
           table == GLOBAL_MAP_HASHES
       IN  IF tick'.seq # tick.seq /\ Truthy(h) /\ h \notin DOMAIN table
           THEN /\ DOMAIN GLOBAL_MAP_HASHES' = DOMAIN table \cup {h}
                /\ \A k \in DOMAIN table : GLOBAL_MAP_HASHES'[k] = table[k]
           ELSE /\ GLOBAL_MAP_HASHES' = table
                /\ (tick'.seq # tick.seq) =>
                      /\ config_file' = config_file
                      /\ ~tick'.registered
                      /\ Truthy(h) =>
                            tick'.current_map_value =
                                IF table[h] # "" THEN table[h]
                                ELSE "Unknown Map (Needs Update)"]_vars

\* a tick observes again the fingerprint an earlier tick registered, and gets
\* the placeholder reference without registering
C7_Witness ==
    /\ tick.n > 0 /\ tick.sha256_hash = HashNew
    /\ tick.known_before /\ ~tick.registered
    /\ tick.current_map_value = PlaceholderUrl
    /\ Cardinality({h \in DOMAIN GLOBAL_MAP_HASHES : h = HashNew}) = 1

\* C8: a tick that observed the hangar fingerprint resolves the map display
\* name "Hangar".
C8_HangarHashIsHangar ==
    (tick.n > 0 /\ tick.sha256_hash = HangarHash) => tick.map_name_display = "Hangar"

-----------------------------------------------------------------------------
(* The classifier *)

OfflinePair == <<"Offline", "Waiting for game...">>
IdlePair(detected_vehicle) == <<"Idle in Hangar", "Inspecting " \o detected_vehicle>>
MenuPair == <<"In Main Menu/Hangar", "Waiting for vehicle selection">>
IdleOrMenu(detected_vehicle) ==
    IF detected_vehicle # "Unknown Vehicle" THEN IdlePair(detected_vehicle)
    ELSE MenuPair
BattleHeadline(details) == Contains("Battle", details)

\* C9: without state telemetry the classifier returns the Offline pair,
\* whatever the map, the mission data and the vehicle are; with state telemetry
\* and the map name "Hangar" it returns the idle pair for a known vehicle and
\* the menu pair for an unknown one, whatever the mission data is; a battle
\* headline is returned only when neither of the two applies.
C9_DecisionOrder ==
    tick.classified =>
        /\ ~TruthyDict(tick.state_data) => tick.status = OfflinePair
        /\ (TruthyDict(tick.state_data) /\ tick.map_name = "Hangar") =>
              tick.status = IdleOrMenu(tick.detected_vehicle)
        /\ BattleHeadline(tick.status[1]) =>
              (TruthyDict(tick.state_data) /\ tick.map_name # "Hangar")
        /\ (TruthyDict(tick.state_data) /\ tick.map_name # "Hangar") =>
              tick.status # OfflinePair

\* the classifier is called without state telemetry, with the map name
\* "Hangar" and a running mission, and returns the Offline pair
C9_Witness ==
    /\ tick.classified
    /\ ~TruthyDict(tick.state_data)
    /\ tick.map_name = "Hangar"
    /\ tick.mission_data = Running
    /\ tick.detected_vehicle # "Unknown Vehicle"
    /\ tick.status = OfflinePair

\* the signals of the mission record
Signalled(mission_data, k) == k \in DOMAIN mission_data /\ mission_data[k] = TRUE
MissionRunning(mission_data) ==
    "status" \in DOMAIN mission_data /\ mission_data.status = "running"

\* C10, as amended: with state telemetry and a map other than "Hangar", the
\* classifier returns a battle headline exactly when the mission is running, or
\* enabled, or valid with a type key whose value is not "mission" (a record
\* without a type key counts as type "mission"); otherwise it returns the idle
\* pair for a known vehicle and the menu pair for an unknown one.
C10_BattleIffInMission ==
    (tick.classified /\ TruthyDict(tick.state_data) /\ tick.map_name # "Hangar") =>
        LET m == tick.mission_data
            inMission == \/ MissionRunning(m)
                         \/ Signalled(m, "is_enabled")
                         \/ (/\ Signalled(m, "valid")
                             /\ "type" \in DOMAIN m
                             /\ m.type # "mission")
        IN  /\ BattleHeadline(tick.status[1]) <=> inMission
            /\ ~inMission => tick.status = IdleOrMenu(tick.detected_vehicle)

\* the classifier is called with state telemetry, a map other than "Hangar"
\* and a valid mission record without a type key, and returns the idle pair
C10_Witness ==
    /\ tick.classified
    /\ TruthyDict(tick.state_data)
    /\ tick.map_name = "Abandoned Town"
    /\ tick.mission_data = [valid |-> TRUE]
    /\ tick.status = IdlePair(tick.detected_vehicle)

\* C10, as stated: a battle headline exactly when the mission is running, or
\* enabled, or valid with a type that is not "mission".
C10_AsStated ==
    (tick.classified /\ TruthyDict(tick.state_data) /\ tick.map_name # "Hangar") =>
        LET m == tick.mission_data
            type == IF "type" \in DOMAIN m THEN m.type ELSE None
            inMission == \/ MissionRunning(m)
                         \/ Signalled(m, "is_enabled")
                         \/ (Signalled(m, "valid") /\ type # "mission")
        IN  /\ BattleHeadline(tick.status[1]) <=> inMission
            /\ ~inMission => tick.status = IdleOrMenu(tick.detected_vehicle)

-----------------------------------------------------------------------------
(* The battle headline and subline *)

\* the classifier returned from its in-mission branch
InBattle ==
    /\ tick.classified /\ TruthyDict(tick.state_data) /\ tick.map_name # "Hangar"
    /\ BattleHeadline(tick.status[1])

\* the mission record reports a type of its own
TypeReported(m) == "type" \in DOMAIN m /\ Truthy(m.type) /\ m.type # "mission"

\* the domain of a vehicle by the prefix of its unfiltered id
DomainOfVehicle(unfiltered_raw_id) ==
    IF Contains("tankmodels/", unfiltered_raw_id) THEN "Ground"
    ELSE IF Contains("shipmodels/", unfiltered_raw_id) \/ Contains("boat/", unfiltered_raw_id)
        THEN "Naval"
    ELSE IF unfiltered_raw_id # "unknown_vehicle" THEN "Air"
    ELSE "Custom"

\* C11: in a mission, a reported type other than "mission" decides the domain
\* of the headline whatever the vehicle is; without one the domain is inferred
\* from the vehicle's unfiltered id: tankmodels/ gives Ground, shipmodels/ or
\* boat/ gives Naval, any other known vehicle Air, an unknown vehicle Custom.
C11_DomainFromTypeFirst ==
    InBattle =>
        LET m == tick.mission_data
            on == " Battle on " \o tick.map_name
        IN  /\ (TypeReported(m) /\ m.type = "ground_battle") =>
                  tick.status[1] = "In Ground" \o on
            /\ (TypeReported(m) /\ m.type = "air_battle") =>
                  tick.status[1] = "In Air" \o on
            /\ (TypeReported(m) /\ m.type = "naval_battle") =>
                  tick.status[1] = "In Naval" \o on
            /\ ~TypeReported(m) =>
                  tick.status[1] = "In " \o DomainOfVehicle(tick.unfiltered_raw_id) \o on

\* a tank in a running mission of type naval_battle gets the Naval headline
C11_Witness ==
    /\ InBattle
    /\ tick.mission_data = [status |-> "running", type |-> "naval_battle"]
    /\ tick.unfiltered_raw_id = "tankmodels/t_34"
    /\ tick.status[1] = "In Naval Battle on Abandoned Town"

\* the action phrase of a vehicle by the prefix of its unfiltered id
PhraseOfVehicle(unfiltered_raw_id) ==
    IF Contains("tankmodels/", unfiltered_raw_id) THEN "Driving a "
    ELSE IF Contains("shipmodels/", unfiltered_raw_id) \/ Contains("boat/", unfiltered_raw_id)
        THEN "Commanding the "
    ELSE "Piloting the "

\* C12: in a mission with a recognized type, the subline is the action phrase
\* of the vehicle's own prefix followed by the vehicle name, whatever the
\* mission type and the headline's domain are.
C12_ActionFromVehicle ==
    (InBattle /\ ~StartsWith(tick.status[1], "In Battle: ")) =>
        tick.status[2] = PhraseOfVehicle(tick.unfiltered_raw_id) \o tick.detected_vehicle

\* a tank in an air battle: Air headline, "Driving a" subline
C12_Witness ==
    /\ InBattle
    /\ tick.mission_data = [status |-> "running", type |-> "air_battle"]
    /\ tick.status = <<"In Air Battle on Abandoned Town", "Driving a T-34">>

\* a reported type that matches a recognized domain
Recognized(type) ==
    \E w \in {"ground_battle", "ground_match", "air_battle", "air_match",
              "naval_battle", "Custom Battle"} : Contains(w, type)

\* C13: in a mission whose reported type is none of the recognized ones, the
\* headline is "In Battle: " with the type, underscores as spaces and
\* title-cased, and the subline is "Map: " with the map name.
C13_UnrecognizedType ==
    (InBattle /\ TypeReported(tick.mission_data)
        /\ ~Recognized(tick.mission_data.type)) =>
        /\ tick.status = <<"In Battle: " \o Title(Replace(tick.mission_data.type, "_", " ")),
                           "Map: " \o tick.map_name>>
        /\ tick.mission_data.type = "pvp_domination" =>
              tick.status[1] = "In Battle: Pvp Domination"

\* a ship in a mission of type pvp_domination on Abandoned Town
C13_Witness ==
    /\ InBattle
    /\ tick.mission_data = [valid |-> TRUE, type |-> "pvp_domination"]
    /\ tick.unfiltered_raw_id = "shipmodels/ger_battleship_bismarck"
    /\ tick.status = <<"In Battle: Pvp Domination", "Map: Abandoned Town">>

-----------------------------------------------------------------------------
(* The images of the payload *)

PortUrl ==
    "https://raw.githubusercontent.com/ajaniceman/WarThunderRPC/main/mapPictures/port_novorossiysk.jpg"

\* C14: a tick that is not in a mission publishes the default large image
\* ("war_thunder_logo", "War Thunder"); a tick in a mission whose map value is
\* a URL publishes that URL as the large image, captioned with the display
\* name derived from its file name, or with "Uploading Map Image" when the URL
\* is the placeholder of the auto-registration.
C14_LargeImage ==
    tick.n > 0 =>
        LET large == <<tick.rpc_payload.large_image, tick.rpc_payload.large_text>>
        IN  /\ ~tick.is_in_mission => large = <<"war_thunder_logo", "War Thunder">>
            /\ (/\ tick.is_in_mission
                /\ \/ StartsWith(tick.current_map_value, "http://")
                   \/ StartsWith(tick.current_map_value, "https://")) =>
                  /\ large[1] = tick.current_map_value
                  /\ large[2] = IF tick.current_map_value = PlaceholderUrl
                                THEN "Uploading Map Image" ELSE tick.map_name_display
                  /\ tick.current_map_value = PortUrl => large[2] = "Port Novorossiysk"

\* a tick in a mission on the map whose table value is the URL of
\* port_novorossiysk.jpg
C14_Witness ==
    /\ tick.n > 0 /\ tick.is_in_mission
    /\ tick.sha256_hash = HashPort /\ tick.known_before
    /\ tick.rpc_payload.large_image = PortUrl
    /\ tick.rpc_payload.large_text = "Port Novorossiysk"

\* the map values that are diagnostics, not names of assets
Diagnostics == {"Unknown Map (Needs Update)", "Not in Mission", "Hangar"}

\* C15: on a tick in a mission whose map value is not a URL, the large image
\* key is the default logo when the map value is "Unknown Map (Needs Update)",
\* "Not in Mission" or the Hangar label, and the map value's asset key
\* otherwise.
C15_CleanAssetKeyOnly ==
    (tick.n > 0 /\ tick.is_in_mission /\ ~is_url(tick.current_map_value)) =>
        IF tick.current_map_value \in Diagnostics
        THEN tick.rpc_payload.large_image = "war_thunder_logo"
        ELSE tick.rpc_payload.large_image \notin Diagnostics \cup {"war_thunder_logo"}

\* C16: the payload of a tick carries a small image exactly when the
\* canonical id is not "unknown_vehicle"; its key is the image URL of the id,
\* and its caption is the vehicle name, followed by " BR: " and the rating
\* when the rating is not "N/A".
C16_SmallImage ==
    tick.n > 0 =>
        LET p == tick.rpc_payload
            known == tick.raw_vehicle_id # "unknown_vehicle"
        IN  /\ "small_image" \in DOMAIN p <=> known
            /\ "small_text" \in DOMAIN p <=> known
            /\ known =>
                  /\ p.small_image = "https://static.encyclopedia.warthunder.com/images/"
                                        \o tick.raw_vehicle_id \o ".png"
                  /\ p.small_text = IF tick.detected_br # "N/A"
                                    THEN tick.detected_vehicle \o " BR: " \o tick.detected_br
                                    ELSE tick.detected_vehicle

\* a battle tick of the T-34 whose lookup gave the rating 3.7
C16_Witness ==
    /\ tick.n > 0 /\ tick.is_in_mission /\ TruthyDict(tick.state_data)
    /\ tick.rpc_payload.details = "In Ground Battle on Not in Mission"
    /\ "small_image" \in DOMAIN tick.rpc_payload
    /\ tick.rpc_payload.small_image =
          "https://static.encyclopedia.warthunder.com/images/t_34.png"
    /\ tick.rpc_payload.small_text = "T-34 BR: 3.7"

-----------------------------------------------------------------------------
(* The vehicle record *)

\* C18: a tick whose canonical id is "unknown_vehicle" makes no external
\* lookup and leaves the vehicle cache as it is, and its display name is
\* "Unknown Vehicle" with the rating "N/A"; state telemetry whose name is the
\* unknown marker gives that id.
C18_UnknownVehicle ==
    [][(tick'.seq # tick.seq) =>
          /\ tick'.state_data = Marker => tick'.raw_vehicle_id = "unknown_vehicle"
          /\ tick'.raw_vehicle_id = "unknown_vehicle" =>
                /\ ~tick'.scrape
                /\ VEHICLE_NAME_CACHE' = VEHICLE_NAME_CACHE
                /\ resolved' = resolved
                /\ tick'.detected_vehicle = "Unknown Vehicle"
                /\ tick'.detected_br = "N/A"]_vars

\* a tick reads the unknown marker as the vehicle name after an earlier tick
\* has filled the cache
C18_Witness ==
    /\ tick.n > 0 /\ tick.state_data = Marker
    /\ tick.raw_vehicle_id = "unknown_vehicle"
    /\ ~tick.scrape
    /\ tick.detected_vehicle = "Unknown Vehicle" /\ tick.detected_br = "N/A"
    /\ tick.resolved_before # {}
    /\ DOMAIN VEHICLE_NAME_CACHE = tick.resolved_before

\* C17: on a tick whose canonical id is a key of the manual override table,
\* the override name is the display name of the subline, of the small image's
\* caption and of the change gate, whether the id came from the cache, from a
\* successful lookup or from the fallback after a failed one; the cached
\* record keeps the name and rating the lookup returned.
C17_OverrideWins ==
    (tick.n > 0 /\ tick.raw_vehicle_id \in DOMAIN VEHICLE_DISPLAY_MAP) =>
        LET id == tick.raw_vehicle_id
            name == VEHICLE_DISPLAY_MAP[id]
            p == tick.rpc_payload
        IN  /\ tick.detected_vehicle = name
            /\ p.small_text = IF tick.detected_br # "N/A"
                              THEN name \o " BR: " \o tick.detected_br ELSE name
            /\ TruthyDict(tick.state_data) =>
                  p.state = (IF tick.is_in_mission THEN "Driving a " ELSE "Inspecting ") \o name
            /\ (pc = "head" /\ tick.run = run /\ tick.sent) =>
                  monitor.last_vehicle_display = name
            /\ id \in DOMAIN VEHICLE_NAME_CACHE =>
                  VEHICLE_NAME_CACHE[id] \in {<<"T-34", "3.7">>, <<"T 34", "N/A">>}

\* a tick serves the T-34 from the cache, where the lookup's name and rating
\* are, and shows the override name
C17_Witness ==
    /\ tick.n > 0 /\ tick.raw_vehicle_id = "t_34"
    /\ "t_34" \in DOMAIN VEHICLE_DISPLAY_MAP
    /\ ~tick.scrape /\ "t_34" \in tick.resolved_before
    /\ VEHICLE_NAME_CACHE["t_34"] = <<"T-34", "3.7">>
    /\ tick.detected_vehicle = "T-34 mod. 1942"
    /\ tick.rpc_payload.small_text = "T-34 mod. 1942 BR: 3.7"
    /\ tick.rpc_payload.state = "Inspecting T-34 mod. 1942"

-----------------------------------------------------------------------------
(* The session start and the end of a run *)

\* C19: a tick whose map display name is "Hangar" sets the session start to
\* the current time and every other tick leaves it as it is; the payload of a
\* tick carries the session start as the tick leaves it; between ticks only
\* the construction of a new monitor sets it, to the time of construction.
C19_SessionStart ==
    [][IF tick'.seq # tick.seq
       THEN /\ monitor'.start_time =
                  IF tick'.map_name_display = "Hangar" THEN now
                  ELSE monitor.start_time
            /\ tick'.rpc_payload.start = monitor'.start_time
       ELSE IF run' # run THEN monitor'.start_time = now
       ELSE monitor'.start_time = monitor.start_time]_vars

\* a battle tick of the first run publishes the time of an earlier Hangar
\* tick, which is neither the time of construction nor its own time
C19_Witness ==
    /\ tick.n > 1 /\ tick.run = 1 /\ tick.sent
    /\ tick.is_in_mission /\ TruthyDict(tick.state_data)
    /\ tick.map_name_display # "Hangar"
    /\ tick.rpc_payload.start = monitor.start_time
    /\ monitor.start_time > 0
    /\ monitor.start_time + 1 < now

-----------------------------------------------------------------------------
(* The poller thread and the controls *)

\* C21: a poller thread is started only when no poller thread is alive, so
\* the thread that is alive is the one of the newest run; a tick begins only
\* from the loop test of that thread and is recorded only when it ends, after
\* its sink call, so tick n+1 begins after tick n has completed.
C21_OnePoller ==
    /\ [][run' # run => (rpc_thread # "alive" /\ pc \in {"none", "done"})]_vars
    /\ [][rpc_thread' = "alive" =>
            pc' \in {"run", "head", "tick", "finally"}]_vars
    /\ [][(pc' = "tick" /\ pc # "tick") => (pc = "head" /\ run' = run)]_vars
    /\ [][tick' # tick =>
            /\ pc = "tick" /\ pc' \in {"head", "finally"}
            /\ tick'.run = run /\ tick'.seq = tick.seq + 1
            /\ (tick'.sent /\ pc' = "head") => sink'.payload = tick'.rpc_payload]_vars

\* Stop and Start were pressed between two ticks: the second run ticks after
\* the thread of the first run has ended, and the first run's last payload
\* was in the sink when the second run's first tick began
C21_Witness ==
    /\ run = 2 /\ tick.run = 2 /\ tick.n = 1 /\ tick.seq = 2
    /\ rpc_thread = "alive" /\ pc = "head"
    /\ tick.last_sent.run = 1


\* C22: a tick that runs while no stop signal is set is followed by the loop
\* test, also when an exception is raised inside it (by the sink's update
\* call): the exception is caught at the tick boundary and polling goes on.
C22_ExceptionCaughtPerTick ==
    [][(pc = "tick" /\ ~stop_event /\ tick'.seq # tick.seq) => pc' = "head"]_vars


\* C23: a run whose connection to the sink failed at start-up has the stop
\* signal set from its construction on, its thread goes from its entry
\* straight to its end, and no tick and no sink call belong to it.
C23_FailedConnectIsTerminal ==
    /\ [](run > 0 /\ ~monitor.is_connected =>
            /\ stop_event
            /\ pc \in {"run", "done"}
            /\ rpc_thread = (IF pc = "run" THEN "alive" ELSE "dead")
            /\ tick.run # run /\ sink.run # run
            /\ ~RPC.open)
    /\ [][(run' # run /\ ~RPC'.open) => (~monitor'.is_connected /\ stop_event')]_vars
    /\ [][(pc = "run" /\ ~monitor.is_connected /\ pc' # pc) =>
            (pc' = "done" /\ rpc_thread' = "dead" /\ tick' = tick /\ sink' = sink)]_vars

\* the second run failed to connect after a first run that had ticked and
\* published: its thread has ended with the stop signal set, and the newest
\* tick and payload are still those of the first run
C23_Witness ==
    /\ run = 2 /\ ~monitor.is_connected /\ stop_event
    /\ pc = "done" /\ rpc_thread = "dead"
    /\ tick.run = 1 /\ tick.n > 0 /\ sink.run = 1


-----------------------------------------------------------------------------
(* Fetches that fail *)

\* C24: a tick completes whatever fetches failed, and a failed fetch shows
\* only in what is derived from its source: without state telemetry the
\* tick is Offline, without mission telemetry it is not in a mission, without
\* a map image the map value is "Not in Mission" and nothing is registered;
\* the mission flag and the registration follow their own sources whatever
\* the other fetches gave, and the first tick of a run passes the gate and
\* publishes.
C24_AbsentSourceOnly ==
    tick.n > 0 =>
        /\ tick.state_data = NoDict =>
              <<tick.rpc_payload.details, tick.rpc_payload.state>> = OfflinePair
        /\ tick.is_in_mission <=> tick.mission_data # NoDict
        /\ tick.sha256_hash = None =>
              /\ tick.current_map_value = "Not in Mission"
              /\ tick.map_name_display = "Not in Mission"
              /\ ~tick.registered
        /\ (tick.sha256_hash # None /\ ~tick.known_before) =>
              (tick.registered /\ tick.current_map_value = PlaceholderUrl)
        /\ tick.n = 1 => tick.sent

\* the state and the mission fetches failed and the map image did not: the
\* tick is Offline, not in a mission, its vehicle comes from the indicators,
\* and the new fingerprint is registered
C24_Witness ==
    /\ tick.n > 0 /\ tick.state_data = NoDict /\ tick.mission_data = NoDict
    /\ tick.sha256_hash = HashNew /\ tick.registered
    /\ tick.raw_vehicle_id = "f3d_1"
    /\ tick.rpc_payload.details = "Offline"
    /\ ~tick.is_in_mission
    /\ tick.rpc_payload.small_text = "F3D 1"
    /\ tick.sent


\* C25: while a poller thread is alive, the vehicle cache and the mapping
\* table are left as they are by every step that is not a tick, and the
\* persisted configuration, which is written from the mapping table, is
\* written by ticks only: no control reads or writes either table.
C25_TablesPollerOnly ==
    [][(rpc_thread = "alive" /\ tick' = tick) =>
          /\ VEHICLE_NAME_CACHE' = VEHICLE_NAME_CACHE
          /\ GLOBAL_MAP_HASHES' = GLOBAL_MAP_HASHES
          /\ config_file' = config_file]_vars


-----------------------------------------------------------------------------
(* load_config on its own: one local configuration and one manifest *)

\* mapping tables over the fingerprints hs with the values vs
Tables(hs, vs) == UNION {[S -> vs] : S \in SUBSET hs}

\* the local configuration: blank (no file and no embedded default), without
\* a mapping table, or with one
ConfigLocals ==
    {NoDict, [APP_ID |-> "1234567890"]}
    \cup {[APP_ID |-> "1234567890", MAP_HASHES |-> m] :
             m \in Tables({HashTown, HashNew}, {"abandoned_town", ""})}

\* the manifest: the fetch failed, the document has no mapping table, or it
\* has one
ConfigManifests ==
    {NoDict, [version |-> "1"]}
    \cup {[MAP_HASHES |-> m] :
             m \in Tables({HashTown, HashPort},
                          {GITHUB_RAW_BASE_URL \o "port_novorossiysk.jpg", "abandoned_town"})}

InitConfig ==
    \E config_local \in ConfigLocals, config_external \in ConfigManifests :
        /\ VEHICLE_NAME_CACHE = NoDict
        /\ LAST_VEHICLE_ID = None
        /\ GLOBAL_MAP_HASHES = NoDict
        /\ GLOBAL_APP_ID = None
        /\ VEHICLE_DISPLAY_MAP = NoOverrides
        /\ RPC = NoRPC
        /\ config_file = config_local
        /\ monitor = NoMonitor
        /\ rpc_thread = "none"
        /\ stop_event = FALSE
        /\ buttons = [start |-> FALSE, stop |-> FALSE]
        /\ pc = "load"
        /\ now = 0
        /\ run = 0
        /\ tick = [n |-> 0, seq |-> 0, run |-> 0, scrape |-> FALSE,
                   scrape_ok |-> FALSE, config_local |-> config_local,
                   config_external |-> config_external]
        /\ sink = NoSink
        /\ resolved = {}
        /\ app = NoApp

\* load_config called by WarThunderRPCApp.__init__: the globals are set and
\* the merged configuration is saved
LoadConfig ==
    /\ pc = "load"
    /\ \E loaded \in {load_config(tick.config_local, tick.config_external)} :
        /\ GLOBAL_MAP_HASHES' = loaded.MAP_HASHES
        /\ GLOBAL_APP_ID' = loaded.APP_ID
        /\ config_file' = loaded
    /\ buttons' = [start |-> TRUE, stop |-> FALSE]
    /\ pc' = "none"
    /\ UNCHANGED <<VEHICLE_NAME_CACHE, LAST_VEHICLE_ID, VEHICLE_DISPLAY_MAP, RPC,
                   monitor, rpc_thread, stop_event, now, run, tick, sink, resolved, app>>

NextConfig == LoadConfig
SpecConfig == InitConfig /\ [][NextConfig]_vars

\* the mapping table of a configuration document, empty when it has none
HashesOf(config) ==
    IF "MAP_HASHES" \in DOMAIN config THEN config["MAP_HASHES"] ELSE NoDict

\* C26: the table load_config builds has the fingerprints of the manifest and
\* of the local configuration and no other; a fingerprint of the local
\* configuration has its local value, a fingerprint of the manifest alone has
\* the manifest's value; the table saved is the table built.
C26_LocalWinsMerge ==
    pc = "none" =>
        LET local == HashesOf(tick.config_local)
            remote == HashesOf(tick.config_external)
        IN  /\ DOMAIN GLOBAL_MAP_HASHES = DOMAIN local \cup DOMAIN remote
            /\ \A h \in DOMAIN local : GLOBAL_MAP_HASHES[h] = local[h]
            /\ \A h \in DOMAIN remote \ DOMAIN local : GLOBAL_MAP_HASHES[h] = remote[h]
            /\ config_file.MAP_HASHES = GLOBAL_MAP_HASHES

\* both tables hold HashTown with different values, and each holds a
\* fingerprint the other lacks: the merged table has three entries and the
\* local value for HashTown
C26_Witness ==
    /\ pc = "none"
    /\ HashesOf(tick.config_local) = (HashTown :> "" @@ HashNew :> "abandoned_town")
    /\ HashesOf(tick.config_external) =
           (HashTown :> "abandoned_town"
            @@ HashPort :> (GITHUB_RAW_BASE_URL \o "port_novorossiysk.jpg"))
    /\ DOMAIN GLOBAL_MAP_HASHES = {HashTown, HashNew, HashPort}
    /\ GLOBAL_MAP_HASHES[HashTown] = ""
    /\ GLOBAL_MAP_HASHES[HashPort] = GITHUB_RAW_BASE_URL \o "port_novorossiysk.jpg"


-----------------------------------------------------------------------------
(* Persistence of the mapping table *)

\* C27: a tick that inserts a fingerprint into the mapping table saves the
\* configuration on that tick, and the saved table is the table before the
\* tick with the new fingerprint added under the placeholder URL; a tick that
\* inserts nothing leaves the saved configuration as it was.
C27_SavedOnRegistration ==
    [][tick'.seq # tick.seq =>
          IF DOMAIN GLOBAL_MAP_HASHES' # DOMAIN GLOBAL_MAP_HASHES
          THEN /\ tick'.registered
               /\ tick'.sha256_hash \notin DOMAIN GLOBAL_MAP_HASHES
               /\ DOMAIN config_file'.MAP_HASHES =
                      DOMAIN GLOBAL_MAP_HASHES \cup {tick'.sha256_hash}
               /\ config_file'.MAP_HASHES[tick'.sha256_hash] = PlaceholderUrl
               /\ \A h \in DOMAIN GLOBAL_MAP_HASHES :
                      config_file'.MAP_HASHES[h] = GLOBAL_MAP_HASHES[h]
               /\ config_file'.MAP_HASHES = GLOBAL_MAP_HASHES'
          ELSE /\ ~tick'.registered
               /\ config_file' = config_file]_vars

\* the second registration of the process: the saved table holds the two
\* local entries and both registered fingerprints
C27_Witness ==
    /\ tick.n > 0 /\ tick.registered /\ tick.sha256_hash = HashNew
    /\ DOMAIN config_file.MAP_HASHES = {HashTown, HashEmpty, HangarHash, HashNew}
    /\ config_file.MAP_HASHES[HashNew] = PlaceholderUrl
    /\ config_file.MAP_HASHES[HangarHash] = PlaceholderUrl
    /\ config_file.MAP_HASHES[HashTown] = "abandoned_town"
    /\ config_file.MAP_HASHES = GLOBAL_MAP_HASHES


-----------------------------------------------------------------------------
(* The vehicle cache over the life of the process *)

\* C28: no step, of a tick, of Start or of Stop, removes an entry of the
\* vehicle cache or changes its name or rating; a tick whose id is in the
\* cache makes no lookup and uses the cached name and rating.
C28_CacheOnlyGrows ==
    [][/\ \A id \in DOMAIN VEHICLE_NAME_CACHE :
            /\ id \in DOMAIN VEHICLE_NAME_CACHE'
            /\ VEHICLE_NAME_CACHE'[id] = VEHICLE_NAME_CACHE[id]
       /\ (tick'.seq # tick.seq /\ tick'.raw_vehicle_id \in DOMAIN VEHICLE_NAME_CACHE) =>
            /\ ~tick'.scrape
            /\ <<tick'.detected_vehicle, tick'.detected_br>> =
                   VEHICLE_NAME_CACHE[tick'.raw_vehicle_id]]_vars

\* the cache holds both vehicles, and a tick of the second run is served the
\* T-34 from it
C28_Witness ==
    /\ tick.n > 0 /\ tick.run = 2 /\ tick.raw_vehicle_id = "t_34"
    /\ DOMAIN VEHICLE_NAME_CACHE = {"t_34", "f3d_1"}
    /\ "t_34" \in tick.resolved_before /\ ~tick.scrape
    /\ VEHICLE_NAME_CACHE["t_34"] = <<"T-34", "3.7">>
    /\ tick.detected_vehicle = "T-34" /\ tick.detected_br = "3.7"


-----------------------------------------------------------------------------
(* get_raw_vehicle_id on its own: one state answer and one indicators answer *)

\* the 'name' of the state endpoint and the 'type' of the indicators endpoint
IdNames ==
    {"tankmodels/T_34", "f3d_1", " Ships/UK/Destroyer_Daring ", "tanks/",
     "F-16A", "Unknown Vehicle", "unknown_vehicle", ""}
IdTypes == {"F3D_1 ", "air/B-17", "dummy_plane", "Unknown Vehicle", ""}

IdStates == {NoDict, NoName} \cup {[valid |-> TRUE, name |-> x] : x \in IdNames}
IdIndicators == {NoDict, [valid |-> TRUE]} \cup {[valid |-> TRUE, type |-> x] : x \in IdTypes}

NoIds == <<>>

InitIds ==
    \E state_data \in IdStates, indicators_data \in IdIndicators :
        LET loaded == load_config(CHOOSE c \in LocalConfigs : TRUE, NoDict)
        IN  /\ VEHICLE_NAME_CACHE = NoDict
            /\ LAST_VEHICLE_ID = None
            /\ GLOBAL_MAP_HASHES = loaded.MAP_HASHES
            /\ GLOBAL_APP_ID = loaded.APP_ID
            /\ VEHICLE_DISPLAY_MAP = NoOverrides
            /\ RPC = NoRPC
            /\ config_file = loaded
            /\ monitor = NoMonitor
            /\ rpc_thread = "none"
            /\ stop_event = FALSE
            /\ buttons = [start |-> TRUE, stop |-> FALSE]
            /\ pc = "read"
            /\ now = 0
            /\ run = 0
            /\ tick = [n |-> 0, seq |-> 0, run |-> 0, scrape |-> FALSE,
                       scrape_ok |-> FALSE, state_data |-> state_data,
                       indicators_data |-> indicators_data, ids |-> NoIds]
            /\ sink = NoSink
            /\ resolved = {}
            /\ app = NoApp

ReadId ==
    /\ pc = "read"
    /\ pc' = "returned"
    /\ tick' = [tick EXCEPT !.ids = get_raw_vehicle_id(tick.state_data,
                                                       tick.indicators_data)]
    /\ UNCHANGED <<VEHICLE_NAME_CACHE, LAST_VEHICLE_ID, GLOBAL_MAP_HASHES,
                   GLOBAL_APP_ID, VEHICLE_DISPLAY_MAP, RPC, config_file, monitor,
                   rpc_thread, stop_event, buttons, now, run, sink, resolved, app>>

NextIds == ReadId
SpecIds == InitIds /\ [][NextIds]_vars

\* the id the call read: the state's name when the state answered with one,
\* else the indicators' type, else none
RawIdRead ==
    IF tick.state_data # NoDict /\ "name" \in DOMAIN tick.state_data
        THEN tick.state_data.name
    ELSE IF tick.indicators_data # NoDict /\ "type" \in DOMAIN tick.indicators_data
        THEN tick.indicators_data.type
    ELSE None

\* C29: the canonical id holds no '/', and the unfiltered id is the canonical
\* id alone or ends with '/' followed by the canonical id; the unfiltered id
\* has no upper-case letter and no outer blank, as the lower-cased and trimmed
\* raw id has; the absent, empty and unknown raw ids give the pair of
\* "unknown_vehicle".  (The pair is an operator of the two answers alone, so
\* equal answers give equal pairs.)
C29_CanonicalIsLastSegment ==
    pc = "returned" =>
        LET canonical_id == tick.ids[1]
            unfiltered_raw_id == tick.ids[2]
            n == Len(unfiltered_raw_id)
            k == Len(canonical_id)
        IN  /\ \A i \in 1..k : CharAt(canonical_id, i) # "/"
            /\ k <= n
            /\ SubSeq(unfiltered_raw_id, n - k + 1, n) = canonical_id
            /\ k < n => CharAt(unfiltered_raw_id, n - k) = "/"
            /\ (\A i \in 1..n : CharAt(unfiltered_raw_id, i) # "/") =>
                  canonical_id = unfiltered_raw_id
            /\ \A i \in 1..n : ~IsUpper(CharAt(unfiltered_raw_id, i))
            /\ n > 0 => (CharAt(unfiltered_raw_id, 1) # " "
                         /\ CharAt(unfiltered_raw_id, n) # " ")
            /\ RawIdRead \in {None, "", "unknown_vehicle", "Unknown Vehicle"} =>
                  tick.ids = <<"unknown_vehicle", "unknown_vehicle">>
            /\ RawIdRead = " Ships/UK/Destroyer_Daring " =>
                  tick.ids = <<"destroyer_daring", "ships/uk/destroyer_daring">>
            /\ RawIdRead = "F3D_1 " => tick.ids = <<"f3d_1", "f3d_1">>

\* a raw id with two '/', upper-case letters and outer blanks
C29_Witness ==
    /\ pc = "returned"
    /\ tick.state_data # NoDict /\ "name" \in DOMAIN tick.state_data
    /\ tick.state_data.name = " Ships/UK/Destroyer_Daring "
    /\ tick.ids = <<"destroyer_daring", "ships/uk/destroyer_daring">>


-----------------------------------------------------------------------------
(* One pass evaluated twice on the same inputs *)

\* the inputs of a pass: offline, idle and in a mission, with no map image,
\* the hangar's and a battle map's
PresenceTelemetry ==
    Snapshots({NoDict, Tank}, {NoDict}, {NoDict, Running}, {None, HangarHash, HashTown})

NoPresentation == <<>>

InitPresence ==
    \E t \in PresenceTelemetry, config_local \in LocalConfigs,
       config_external \in Manifests, start_time \in {0, 1} :
        LET loaded == load_config(config_local, config_external)
        IN  /\ VEHICLE_NAME_CACHE = NoDict
            /\ LAST_VEHICLE_ID = None
            /\ GLOBAL_MAP_HASHES = loaded.MAP_HASHES
            /\ GLOBAL_APP_ID = loaded.APP_ID
            /\ VEHICLE_DISPLAY_MAP = NoOverrides
            /\ RPC = [run |-> 1, open |-> TRUE]
            /\ config_file = loaded
            /\ monitor = [NewMonitor(loaded.APP_ID, start_time, TRUE)
                             EXCEPT !.last_details = "Offline"]
            /\ rpc_thread = "alive"
            /\ stop_event = FALSE
            /\ buttons = [start |-> FALSE, stop |-> TRUE]
            /\ pc = "first"
            /\ now = start_time
            /\ run = 1
            /\ tick = [n |-> 0, seq |-> 0, run |-> 0, scrape |-> FALSE,
                       scrape_ok |-> FALSE, t |-> t,
                       first |-> NoPresentation, second |-> NoPresentation,
                       map_name_display |-> "", clocks |-> <<>>]
            /\ sink = NoSink
            /\ resolved = {}
            /\ app = NoApp

\* steps 2 to 9 of the loop body at the clock reading clock, on the inputs
\* and the monitor of the state; nothing is published or remembered
Present(clock, which) ==
    /\ pc = which
    /\ clock >= now
    /\ now' = clock
    /\ \E r \in {TickStep(tick.t, NoPage, monitor, VEHICLE_NAME_CACHE,
                          LAST_VEHICLE_ID, GLOBAL_MAP_HASHES, clock)} :
          tick' = [tick EXCEPT ![which] = r.rpc_payload,
                               !.map_name_display = r.map_name_display,
                               !.clocks = Append(@, clock)]
    /\ pc' = IF which = "first" THEN "second" ELSE "compared"
    /\ UNCHANGED <<VEHICLE_NAME_CACHE, LAST_VEHICLE_ID, GLOBAL_MAP_HASHES,
                   GLOBAL_APP_ID, VEHICLE_DISPLAY_MAP, RPC, config_file, monitor,
                   rpc_thread, stop_event, buttons, run, sink, resolved, app>>

NextPresence ==
    \E clock \in 0..MaxClock : Present(clock, "first") \/ Present(clock, "second")
SpecPresence == InitPresence /\ [][NextPresence]_vars

\* the payload without its session start
Shown(p) == [k \in DOMAIN p \ {"start"} |-> p[k]]

\* C30, as stated: two evaluations on the same telemetry, vehicle record, map
\* value and prior session start give payloads equal in every field.
C30_AsStated ==
    pc = "compared" => tick.first = tick.second

\* C30, amended: the two payloads are equal in every field but the session
\* start; the session start is the prior one in both when the map display
\* name is not "Hangar", and the clock reading of each evaluation when it is.
C30_SameButHangarStart ==
    pc = "compared" =>
        /\ Shown(tick.first) = Shown(tick.second)
        /\ IF tick.map_name_display = "Hangar"
           THEN /\ tick.first.start = tick.clocks[1]
                /\ tick.second.start = tick.clocks[2]
           ELSE /\ tick.first.start = monitor.start_time
                /\ tick.second.start = monitor.start_time

\* two evaluations in the hangar at different clock readings: the same
\* headline, subline and images, and two session starts
C30_Witness ==
    /\ pc = "compared"
    /\ tick.map_name_display = "Hangar"
    /\ tick.first.details = "Idle in Hangar" /\ tick.second.details = "Idle in Hangar"
    /\ Shown(tick.first) = Shown(tick.second)
    /\ tick.first.start = 1 /\ tick.second.start = 2
    /\ monitor.start_time = 0


-----------------------------------------------------------------------------
(* C31: closing the window while polling *)

\* C31: when the window has been destroyed, the sink connection of the run
\* that was polling has been torn down (RPC.close has been called).
C31_TeardownBeforeDestroy ==
    app.window = "destroyed" => ~RPC.open


-----------------------------------------------------------------------------
(* C32: which source the vehicle id is taken from *)

\* the state source answered and its answer has a 'name' key
StateNamed == tick.state_data # NoDict /\ "name" \in DOMAIN tick.state_data
\* the indicators source answered and its answer has a 'type' key
IndicatorsTyped ==
    tick.indicators_data # NoDict /\ "type" \in DOMAIN tick.indicators_data
\* a value that names no vehicle: empty, or the unknown marker
NamesNoVehicle(x) == x \in {"", "unknown_vehicle", "Unknown Vehicle"}
UnknownIds == <<"unknown_vehicle", "unknown_vehicle">>

\* C32: when the state source has a 'name' key the id is its name, lower-cased
\* and trimmed, whatever the indicators say, and is "unknown_vehicle" when
\* that name is empty or the unknown marker even if the indicators name a
\* vehicle; the indicators' 'type' is used only when the state source is
\* absent or has no 'name' key, under the same rule; with neither key the
\* id is "unknown_vehicle".
C32_SourceSelection ==
    pc = "returned" =>
        /\ StateNamed =>
              IF NamesNoVehicle(tick.state_data.name)
              THEN tick.ids = UnknownIds
              ELSE tick.ids[2] = Strip(Lower(tick.state_data.name))
        /\ (~StateNamed /\ IndicatorsTyped) =>
              IF NamesNoVehicle(tick.indicators_data.type)
              THEN tick.ids = UnknownIds
              ELSE tick.ids[2] = Strip(Lower(tick.indicators_data.type))
        /\ (~StateNamed /\ ~IndicatorsTyped) => tick.ids = UnknownIds

\* the state source has an empty name while the indicators name a vehicle:
\* the id is unknown
C32_Witness ==
    /\ pc = "returned"
    /\ StateNamed /\ tick.state_data.name = ""
    /\ IndicatorsTyped /\ tick.indicators_data.type = "air/B-17"
    /\ tick.ids = UnknownIds


-----------------------------------------------------------------------------
(* C33: Start pressed after Stop *)

\* C33: every step in which start_rpc handles a Start request (the Start
\* button is enabled, the application id is not empty) builds the monitor of
\* a new run and starts its thread.
C33_StartNeverDropped ==
    [][app'.last_start # app.last_start =>
          /\ run' = run + 1
          /\ rpc_thread' = "alive"
          /\ pc' = "run"]_vars


-----------------------------------------------------------------------------
(* C34: the buttons when no thread is alive *)

\* C34: whenever no poller thread is alive, Start is enabled and Stop is
\* disabled. (Each request is one step, so no request is being processed in
\* any state.)
C34_IdleButtonsWhenNoThread ==
    rpc_thread # "alive" => buttons = [start |-> TRUE, stop |-> FALSE]


-----------------------------------------------------------------------------
(* C35: the handle RPC.update is called on *)

\* C35: every tick that calls RPC.update finds in RPC the open handle that
\* the monitor of the current run connected; this holds with Start pressed
\* while a thread is ending, with Stop, and with the window closed.
C35_UpdateOnLiveHandle ==
    [][(tick'.seq # tick.seq /\ tick'.sent) =>
          /\ RPC.open /\ RPC.run = run /\ RPC'.run = run
          /\ monitor.is_connected
          /\ tick'.run = run
          /\ app.window # "destroyed"]_vars

\* the first tick of the second run has called RPC.update on the handle of
\* the second run, and the window is being closed
C35_Witness ==
    /\ run = 2 /\ tick.run = 2 /\ tick.n = 1 /\ tick.sent
    /\ RPC = [run |-> 2, open |-> TRUE]
    /\ sink.run = 2
    /\ app.window = "closing"


-----------------------------------------------------------------------------
(* C36: one teardown at the end of every connected run *)

-----------------------------------------------------------------------------
(* C37: the large image and the headline *)

\* C37: a tick whose headline is not a battle headline ("Offline", "Idle in
\* Hangar", "In Main Menu/Hangar") has the default large image and caption.
C37_LargeImageOnlyInBattle ==
    (tick.n > 0 /\ ~BattleHeadline(tick.rpc_payload.details)) =>
        /\ tick.rpc_payload.large_image = "war_thunder_logo"
        /\ tick.rpc_payload.large_text = "War Thunder"


-----------------------------------------------------------------------------
(* C38: the mapping table over several starts of the program *)

\* C38: an entry of the configuration file keeps its value in every later
\* state of the file, whatever the manifest of a later start says about its
\* fingerprint, and the table in memory has that value too: a placeholder
\* registered by the poller, and an entry merged from the manifest at one
\* start, are local entries at every later start.
C38_PersistedEntriesStay ==
    /\ [](\A h \in DOMAIN config_file.MAP_HASHES :
             /\ h \in DOMAIN GLOBAL_MAP_HASHES
             /\ GLOBAL_MAP_HASHES[h] = config_file.MAP_HASHES[h])
    /\ [][\A h \in DOMAIN config_file.MAP_HASHES :
             /\ h \in DOMAIN config_file'.MAP_HASHES
             /\ config_file'.MAP_HASHES[h] = config_file.MAP_HASHES[h]
             /\ GLOBAL_MAP_HASHES'[h] = config_file.MAP_HASHES[h]]_vars

\* the program has just been started with the later manifest (HashDock is
\* known), after a run registered HashNew and an earlier start merged
\* HashPort: both have the values of the file, not the manifest's
C38_Witness ==
    /\ pc = "none" /\ tick = NoTick
    /\ HashDock \in DOMAIN GLOBAL_MAP_HASHES
    /\ HashNew \in DOMAIN config_file.MAP_HASHES
    /\ GLOBAL_MAP_HASHES[HashNew] = auto_generated_url
    /\ config_file.MAP_HASHES[HashNew] = auto_generated_url
    /\ GLOBAL_MAP_HASHES[HashPort] = GITHUB_RAW_BASE_URL \o "port_novorossiysk.jpg"
    /\ GLOBAL_MAP_HASHES[HashEmpty] = ""


-----------------------------------------------------------------------------
(* C40: a lookup that finds a name and no rating *)

\* the ids cached with the not-available rating
Unrated(cache) == {id \in DOMAIN cache : cache[id][2] = "N/A"}

\* C40: a tick whose lookup returns a name and no rating caches the id with
\* that name and "N/A"; such an entry stays as it is; and a tick on an id
\* resolved that way asks the wiki nothing and has the bare cached name as
\* the caption of its small image.
C40_UnratedStaysResolved ==
    /\ [](tick.n > 0 /\ tick.scrape_ok /\ tick.detected_br = "N/A" =>
             /\ tick.raw_vehicle_id \in DOMAIN VEHICLE_NAME_CACHE
             /\ VEHICLE_NAME_CACHE[tick.raw_vehicle_id] = <<tick.detected_vehicle, "N/A">>)
    /\ [][\A id \in Unrated(VEHICLE_NAME_CACHE) :
             /\ id \in DOMAIN VEHICLE_NAME_CACHE'
             /\ VEHICLE_NAME_CACHE'[id] = VEHICLE_NAME_CACHE[id]]_vars
    /\ [](tick.n > 0 /\ tick.raw_vehicle_id \in tick.resolved_before
             /\ tick.raw_vehicle_id \in Unrated(VEHICLE_NAME_CACHE) =>
             /\ ~tick.scrape
             /\ tick.detected_br = "N/A"
             /\ tick.rpc_payload.small_text = VEHICLE_NAME_CACHE[tick.raw_vehicle_id][1])

\* the T-34's page gave no name of its own and no rating: the id is cached as
\* <<"T 34", "N/A">>, and a tick of the second run, after another vehicle,
\* shows "T 34" without asking
C40_Witness ==
    /\ tick.run = 2 /\ tick.raw_vehicle_id = "t_34" /\ ~tick.scrape
    /\ "t_34" \in tick.resolved_before
    /\ tick.last_vehicle_id = "f3d_1"
    /\ VEHICLE_NAME_CACHE["t_34"] = <<"T 34", "N/A">>
    /\ tick.rpc_payload.small_text = "T 34"


-----------------------------------------------------------------------------
(* save_config step by step: Save ID beside an auto-registration *)

\* config.json just opened for writing: empty
Truncated == [json |-> "empty"]
\* config.json holding a whole document followed by the tail of a longer one:
\* json.load raises JSONDecodeError ("Extra data")
Garbled == [json |-> "extra data"]
Readable(file) == "MAP_HASHES" \in DOMAIN file

RECURSIVE EntriesSize(_, _)
\* the characters json.dump(indent=4) writes for the entries hs of table:
\* each on a line of its own, indented by eight blanks, comma-separated
EntriesSize(table, hs) ==
    IF hs = {} THEN 0
    ELSE LET h == CHOOSE x \in hs : TRUE
         IN  16 + Len(h) + Len(table[h]) + EntriesSize(table, hs \ {h})

\* the length of json.dump(config_data, f, indent=4)
DumpSize(config_data) ==
    40 + (IF config_data.APP_ID = None THEN 4 ELSE Len(config_data.APP_ID) + 2)
       + (IF DOMAIN config_data.MAP_HASHES = {} THEN 0
          ELSE 4 + EntriesSize(config_data.MAP_HASHES, DOMAIN config_data.MAP_HASHES))

\* closing a handle opened with 'w': its buffer is written from offset 0 over
\* what the file holds by then, which is nothing, or what another handle
\* wrote since; the file is not truncated again
Flush(buffer, file) ==
    IF file = Truncated \/ file = buffer THEN buffer
    ELSE IF Readable(file) /\ DumpSize(buffer) >= DumpSize(file) THEN buffer
    ELSE Garbled

NoBuffer == <<>>

\* fingerprints the map image may have while the race is examined
RaceHashes == {None, HashTown, HashNew, HashPort}

\* the program polling, after Start: the poller is before step 3 of a pass,
\* the control thread is in mainloop
InitRace ==
    \E config_local \in LocalConfigs :
        LET loaded == load_config(config_local, NoDict)
        IN  /\ VEHICLE_NAME_CACHE = NoDict
            /\ LAST_VEHICLE_ID = None
            /\ GLOBAL_MAP_HASHES = loaded.MAP_HASHES
            /\ GLOBAL_APP_ID = loaded.APP_ID
            /\ VEHICLE_DISPLAY_MAP = NoOverrides
            /\ RPC = [run |-> 1, open |-> TRUE]
            /\ config_file = loaded
            /\ monitor = NewMonitor(loaded.APP_ID, 0, TRUE)
            /\ rpc_thread = "alive"
            /\ stop_event = FALSE
            /\ buttons = [start |-> FALSE, stop |-> TRUE]
            /\ pc = "map"
            /\ now = 0
            /\ run = 1
            /\ tick = [n |-> 0, seq |-> 0, run |-> 1, scrape |-> FALSE,
                       scrape_ok |-> FALSE, app_id |-> None, buffer |-> NoBuffer]
            /\ sink = NoSink
            /\ resolved = {}
            /\ app = [window |-> "open", last_start |-> "started", save |-> "idle",
                      app_id |-> None, buffer |-> NoBuffer]

\* step 3 of a pass up to the insertion: a fingerprint that the table lacks is
\* inserted, any other ends the step
MapInsert(sha256_hash) ==
    /\ pc = "map"
    /\ tick.seq < MaxShortTicks
    /\ IF IsNewHash(sha256_hash, GLOBAL_MAP_HASHES)
       THEN /\ GLOBAL_MAP_HASHES' = RegisterHash(GLOBAL_MAP_HASHES, sha256_hash)
            /\ pc' = "open"
            /\ UNCHANGED tick
       ELSE /\ tick' = [tick EXCEPT !.seq = @ + 1, !.n = @ + 1]
            /\ UNCHANGED <<GLOBAL_MAP_HASHES, pc>>
    /\ UNCHANGED <<VEHICLE_NAME_CACHE, LAST_VEHICLE_ID, GLOBAL_APP_ID,
                   VEHICLE_DISPLAY_MAP, RPC, config_file, monitor, rpc_thread,
                   stop_event, buttons, now, run, sink, resolved, app>>

\* the poller builds config_to_save and save_config opens the file
MapOpen ==
    /\ pc = "open"
    /\ tick' = [tick EXCEPT !.app_id = GLOBAL_APP_ID]
    /\ config_file' = Truncated
    /\ pc' = "dump"
    /\ UNCHANGED <<VEHICLE_NAME_CACHE, LAST_VEHICLE_ID, GLOBAL_MAP_HASHES,
                   GLOBAL_APP_ID, VEHICLE_DISPLAY_MAP, RPC, monitor, rpc_thread,
                   stop_event, buttons, now, run, sink, resolved, app>>

\* json.dump in the poller: the table as it is now goes into the buffer
MapDump ==
    /\ pc = "dump"
    /\ tick' = [tick EXCEPT !.buffer = [APP_ID |-> tick.app_id,
                                        MAP_HASHES |-> GLOBAL_MAP_HASHES]]
    /\ pc' = "close"
    /\ UNCHANGED <<VEHICLE_NAME_CACHE, LAST_VEHICLE_ID, GLOBAL_MAP_HASHES,
                   GLOBAL_APP_ID, VEHICLE_DISPLAY_MAP, RPC, config_file, monitor,
                   rpc_thread, stop_event, buttons, now, run, sink, resolved, app>>

\* the poller's file is closed, and the pass goes on
MapClose ==
    /\ pc = "close"
    /\ config_file' = Flush(tick.buffer, config_file)
    /\ tick' = [tick EXCEPT !.seq = @ + 1, !.n = @ + 1, !.buffer = NoBuffer,
                            !.app_id = None]
    /\ pc' = "map"
    /\ UNCHANGED <<VEHICLE_NAME_CACHE, LAST_VEHICLE_ID, GLOBAL_MAP_HASHES,
                   GLOBAL_APP_ID, VEHICLE_DISPLAY_MAP, RPC, monitor, rpc_thread,
                   stop_event, buttons, now, run, sink, resolved, app>>

\* save_app_id up to the opening of the file
SaveOpen(entry) ==
    /\ app.save = "idle"
    /\ Truthy(Strip(entry))
    /\ GLOBAL_APP_ID' = Strip(entry)
    /\ config_file' = Truncated
    /\ app' = [app EXCEPT !.save = "dump", !.app_id = Strip(entry)]
    /\ UNCHANGED <<VEHICLE_NAME_CACHE, LAST_VEHICLE_ID, GLOBAL_MAP_HASHES,
                   VEHICLE_DISPLAY_MAP, RPC, monitor, rpc_thread, stop_event,
                   buttons, pc, now, run, tick, sink, resolved>>

\* json.dump in save_app_id: current_config holds the table itself, not a
\* copy, so the buffer gets the table as it is now
SaveDump ==
    /\ app.save = "dump"
    /\ app' = [app EXCEPT !.save = "close",
                          !.buffer = [APP_ID |-> app.app_id,
                                      MAP_HASHES |-> GLOBAL_MAP_HASHES]]
    /\ UNCHANGED <<VEHICLE_NAME_CACHE, LAST_VEHICLE_ID, GLOBAL_MAP_HASHES,
                   GLOBAL_APP_ID, VEHICLE_DISPLAY_MAP, RPC, config_file, monitor,
                   rpc_thread, stop_event, buttons, pc, now, run, tick, sink,
                   resolved>>

\* save_app_id's file is closed
SaveClose ==
    /\ app.save = "close"
    /\ config_file' = Flush(app.buffer, config_file)
    /\ app' = [app EXCEPT !.save = "idle", !.buffer = NoBuffer, !.app_id = None]
    /\ UNCHANGED <<VEHICLE_NAME_CACHE, LAST_VEHICLE_ID, GLOBAL_MAP_HASHES,
                   GLOBAL_APP_ID, VEHICLE_DISPLAY_MAP, RPC, monitor, rpc_thread,
                   stop_event, buttons, pc, now, run, tick, sink, resolved>>

NextRace ==
    \/ \E sha256_hash \in RaceHashes : MapInsert(sha256_hash)
    \/ MapOpen
    \/ MapDump
    \/ MapClose
    \/ \E entry \in EntryIds : SaveOpen(entry)
    \/ SaveDump
    \/ SaveClose
SpecRace == InitRace /\ [][NextRace]_vars

\* C39: when neither save_app_id nor a registration is under way, the
\* configuration file is readable and its MAP_HASHES has every fingerprint
\* of the table in memory.
C39_NoRegistrationLost ==
    (app.save = "idle" /\ pc = "map") =>
        /\ Readable(config_file)
        /\ DOMAIN GLOBAL_MAP_HASHES \subseteq DOMAIN config_file.MAP_HASHES

=============================================================================
